---- MODULE Spec2Model ----
(***************************************************************************)
(* The OPL line parser of libosmium as vendored in osrm-backend:           *)
(* third_party/libosmium/include/osmium/io/detail/opl_parser_functions.hpp *)
(*                                                                         *)
(* A line is a NUL-terminated byte buffer.  Bytes are integers 0..255, a   *)
(* cursor is a 0-based offset into the buffer, the null pointer is NULL.   *)
(* Scanners are operators that return a record: ok, the cursor after the   *)
(* call (s), the value, and for a thrown opl_error its message (msg) and   *)
(* the data pointer the throw attached (at).  Code after a call that may   *)
(* throw is the second argument of Then.                                   *)
(***************************************************************************)
EXTENDS Integers, Sequences, FiniteSets, TLC

\* ------------------------------------------------------------------ bytes

\* The printable ASCII characters, code 32 (space) to 126 (~), in order; the
\* quote, the backslash and the backtick are spelled out.
Printable ==
    << " ", "!", "DQUOTE", "#", "$", "%", "&", "'", "(", ")", "*", "+", ",", "-", ".", "/",
       "0", "1", "2", "3", "4", "5", "6", "7", "8", "9", ":", ";", "<", "=", ">", "?",
       "@", "A", "B", "C", "D", "E", "F", "G", "H", "I", "J", "K", "L", "M", "N", "O",
       "P", "Q", "R", "S", "T", "U", "V", "W", "X", "Y", "Z", "[", "BACKSLASH", "]", "^", "_",
       "BACKTICK", "a", "b", "c", "d", "e", "f", "g", "h", "i", "j", "k", "l", "m", "n", "o",
       "p", "q", "r", "s", "t", "u", "v", "w", "x", "y", "z", "{", "|", "}", "~" >>

\* The character code of a printable character: a C character literal 'c'.
Ord ==
    [c \in {Printable[i] : i \in 1..Len(Printable)} |->
        31 + (CHOOSE i \in 1..Len(Printable) : Printable[i] = c)]

\* '\0' and '\t'.
NUL == 0
TAB == 9

\* The null pointer (no offset of the buffer).
NULL == -1

\* The bytes of a text of printable characters and tabs ("\t").
B(t) ==
    [i \in 1..Len(t) |->
        LET c == SubSeq(t, i, i) IN IF c = "\t" THEN TAB ELSE Ord[c]]

\* *s for a cursor s into buf.
Byte(buf, s) == buf[s + 1]

IsDigit(b) == b >= Ord["0"] /\ b <= Ord["9"]

\* ------------------------------------------------------------ opl_error

\* throw opl_error{what, d}: the message and the data pointer (NULL when the
\* throw names none); line and column are 0 until set_pos.
Throw(what, d) ==
    [ok |-> FALSE, msg |-> what, at |-> d]

\* A call that may throw, and the code K after it: an exception of the call
\* leaves the caller too, otherwise the code goes on with what was returned.
Then(r, K(_)) == IF r.ok THEN K(r) ELSE r

\* ------------------------------------------------------- scalar scanners

RECURSIVE SkipBlanks(_, _)
\* The do-while of opl_parse_space, entered after the first ++*s.
SkipBlanks(buf, s) ==
    IF Byte(buf, s) = Ord[" "] \/ Byte(buf, s) = TAB
    THEN SkipBlanks(buf, s + 1)
    ELSE s

opl_parse_space(buf, s) ==
    IF Byte(buf, s) # Ord[" "] /\ Byte(buf, s) # TAB
    THEN Throw("expected space or tab character", s)
    ELSE [ok |-> TRUE, s |-> SkipBlanks(buf, s + 1)]

opl_non_empty(buf, s) ==
    Byte(buf, s) # NUL /\ Byte(buf, s) # Ord[" "] /\ Byte(buf, s) # TAB

RECURSIVE opl_skip_section(_, _)
opl_skip_section(buf, s) ==
    IF opl_non_empty(buf, s) THEN opl_skip_section(buf, s + 1) ELSE s

opl_parse_char(buf, s, c) ==
    IF Byte(buf, s) = Ord[c]
    THEN [ok |-> TRUE, s |-> s + 1]
    ELSE Throw("expected '" \o c \o "'", s)

opl_parse_visible(buf, s) ==
    IF Byte(buf, s) = Ord["V"] THEN [ok |-> TRUE, s |-> s + 1, val |-> TRUE]
    ELSE IF Byte(buf, s) = Ord["D"] THEN [ok |-> TRUE, s |-> s + 1, val |-> FALSE]
    ELSE Throw("invalid visible flag", s)

\* ---------------------------------------------------- percent escapes

\* sizeof(value) * 2 for the uint32_t value: hex chars of a 32-bit number.
max_length == 8

\* A uint32_t is kept as two 16-bit halves, value = hi * 2^16 + lo.
Zero32 == [hi |-> 0, lo |-> 0]

\* value <<= 4U on a uint32_t: the top four bits are lost.
Shl4(v) ==
    [hi |-> (v.hi % 4096) * 16 + (v.lo \div 4096), lo |-> (v.lo % 4096) * 16]

\* value += d for a hex digit d after the shift (the low four bits are 0).
Add4(v, d) == [hi |-> v.hi, lo |-> v.lo + d]

\* The UTF-8 bytes of a code point (osmium/io/detail/string_util.hpp): one to
\* four bytes; each byte is cut to a char.
append_codepoint_as_utf8(cp) ==
    IF cp.hi = 0 /\ cp.lo < 128 THEN << cp.lo >>
    ELSE IF cp.hi = 0 /\ cp.lo < 2048
    THEN << 192 + (cp.lo \div 64), 128 + (cp.lo % 64) >>
    ELSE IF cp.hi = 0
    THEN << 224 + (cp.lo \div 4096), 128 + ((cp.lo \div 64) % 64), 128 + (cp.lo % 64) >>
    ELSE << (240 + (cp.hi \div 4)) % 256,
            128 + ((cp.hi % 4) * 16 + (cp.lo \div 4096)),
            128 + ((cp.lo \div 64) % 64),
            128 + (cp.lo % 64) >>

\* The value of a hex digit byte, -1 for any other byte.
HexVal(b) ==
    IF b >= Ord["0"] /\ b <= Ord["9"] THEN b - Ord["0"]
    ELSE IF b >= Ord["a"] /\ b <= Ord["f"] THEN b - Ord["a"] + 10
    ELSE IF b >= Ord["A"] /\ b <= Ord["F"] THEN b - Ord["A"] + 10
    ELSE -1

RECURSIVE EscapedLoop(_, _, _, _, _)
\* The while (++length <= max_length) loop of opl_parse_escaped; length is the
\* counter before the increment.
EscapedLoop(buf, s, value, length, result) ==
    IF length + 1 > max_length
    THEN Throw("hex escape too long", s)
    ELSE IF Byte(buf, s) = NUL
    THEN Throw("eol", s)
    ELSE IF Byte(buf, s) = Ord["%"]
    THEN [ok |-> TRUE, s |-> s + 1, str |-> result \o append_codepoint_as_utf8(value)]
    ELSE IF HexVal(Byte(buf, s)) >= 0
    THEN EscapedLoop(buf, s + 1, Add4(Shl4(value), HexVal(Byte(buf, s))), length + 1, result)
    ELSE Throw("not a hex char", s)

\* Entered with the cursor just past the opening '%'.
opl_parse_escaped(buf, s, result) ==
    EscapedLoop(buf, s, Zero32, 0, result)

\* The test that ends a string without the '='.
StringEndNoEquals(b) == b = NUL \/ b = Ord[" "] \/ b = TAB \/ b = Ord[","]

\* *s == '\0' || *s == ' ' || *s == '\t' || *s == ',' || *s == '='
StringEnd(b) == b = NUL \/ b = Ord[" "] \/ b = TAB \/ b = Ord[","] \/ b = Ord["="]

RECURSIVE opl_parse_string(_, _, _)
opl_parse_string(buf, s, result) ==
    IF StringEnd(Byte(buf, s))
    THEN [ok |-> TRUE, s |-> s, str |-> result]
    ELSE IF Byte(buf, s) = Ord["%"]
    THEN Then(opl_parse_escaped(buf, s + 1, result),
              LAMBDA e : opl_parse_string(buf, e.s, e.str))
    ELSE opl_parse_string(buf, s + 1, Append(result, Byte(buf, s)))

\* ------------------------------------------------------------- integers

\* Arbitrary limit how long integers can get.
max_int_len == 16

\* An integer is a sign and a magnitude; the magnitude is its decimal digits,
\* most significant first, without leading zeros (the empty tuple is 0).

\* a < b for magnitudes.
MagLess(a, b) ==
    \/ Len(a) < Len(b)
    \/ /\ Len(a) = Len(b)
       /\ \E i \in 1..Len(a) :
            /\ a[i] < b[i]
            /\ \A j \in 1..(i - 1) : a[j] = b[j]

\* value * 10 + d for a digit d.
MulAdd10(value, d) ==
    IF value = << >> /\ d = 0 THEN << >> ELSE Append(value, d)

\* std::numeric_limits<int64_t>::max(), 9223372036854775807.
Int64Max == << 9, 2, 2, 3, 3, 7, 2, 0, 3, 6, 8, 5, 4, 7, 7, 5, 8, 0, 7 >>

\* The integer types of osmium/osm/types.hpp the parser narrows to, each with the
\* magnitudes of its minimum (<= 0) and maximum.
Int64Type ==
    [name |-> "int64_t",
     min |-> << 9, 2, 2, 3, 3, 7, 2, 0, 3, 6, 8, 5, 4, 7, 7, 5, 8, 0, 8 >>,
     max |-> Int64Max]

UInt32Type ==
    [name |-> "uint32_t", min |-> << >>, max |-> << 4, 2, 9, 4, 9, 6, 7, 2, 9, 5 >>]

object_id_type == Int64Type
changeset_id_type == UInt32Type
object_version_type == UInt32Type
user_id_type == UInt32Type
num_changes_type == UInt32Type
num_comments_type == UInt32Type

RECURSIVE IntLoop(_, _, _, _, _)
\* The digit loop of opl_parse_int.  ovf records that value * 10 + digit left
\* the range of the int64_t accumulator (signed overflow); the magnitude is then
\* kept as the mathematical value.
IntLoop(buf, s, value, n, ovf) ==
    IF IsDigit(Byte(buf, s))
    THEN IF n - 1 = 0
         THEN Throw("integer too long", s) @@ [ovf |-> ovf]
         ELSE IntLoop(buf, s + 1, MulAdd10(value, Byte(buf, s) - Ord["0"]), n - 1,
                      ovf \/ MagLess(Int64Max, MulAdd10(value, Byte(buf, s) - Ord["0"])))
    ELSE [ok |-> TRUE, s |-> s, value |-> value, n |-> n, ovf |-> ovf]

\* opl_parse_int after its loop without the comparisons with the limits of T.
IntUnchecked(l, negative, T) ==
    IF l.n = max_int_len
    THEN Throw("expected integer", l.s) @@ [ovf |-> l.ovf]
    ELSE [ok |-> TRUE, s |-> l.s, ovf |-> l.ovf,
          val |-> [neg |-> negative /\ l.value # << >>, mag |-> l.value]]

\* The code of opl_parse_int after its loop left l; val is T(value).
IntNarrow(l, negative, T) ==
    IF l.n = max_int_len
    THEN Throw("expected integer", l.s) @@ [ovf |-> l.ovf]
    ELSE IF negative /\ l.value # << >> /\ MagLess(T.min, l.value)
    THEN Throw("integer too long", l.s) @@ [ovf |-> l.ovf]
    ELSE IF ~negative /\ MagLess(T.max, l.value)
    THEN Throw("integer too long", l.s) @@ [ovf |-> l.ovf]
    ELSE [ok |-> TRUE, s |-> l.s, ovf |-> l.ovf,
          val |-> [neg |-> negative /\ l.value # << >>, mag |-> l.value]]

\* opl_parse_int<T>.
opl_parse_int(buf, s, T) ==
    IF Byte(buf, s) = NUL
    THEN Throw("expected integer", s) @@ [ovf |-> FALSE]
    ELSE IF Byte(buf, s) = Ord["-"]
    THEN Then(IntLoop(buf, s + 1, << >>, max_int_len, FALSE),
              LAMBDA l : IntNarrow(l, TRUE, T))
    ELSE Then(IntLoop(buf, s, << >>, max_int_len, FALSE),
              LAMBDA l : IntNarrow(l, FALSE, T))

opl_parse_id(buf, s) == opl_parse_int(buf, s, object_id_type)
opl_parse_changeset_id(buf, s) == opl_parse_int(buf, s, changeset_id_type)
opl_parse_version(buf, s) == opl_parse_int(buf, s, object_version_type)
opl_parse_uid(buf, s) == opl_parse_int(buf, s, user_id_type)

\* ----------------------------------------------------------- timestamps

\* The number a run of decimal digit bytes buf[s .. s+k-1] spells.
RECURSIVE Decimal(_, _, _)
Decimal(buf, s, k) ==
    IF k = 0 THEN 0
    ELSE Decimal(buf, s, k - 1) * 10 + (Byte(buf, s + k - 1) - Ord["0"])

\* The 20 bytes yyyy-mm-ddThh:mm:ssZ: the offsets that hold digits, and the
\* byte every other offset holds.
IsoDigitAt == {0, 1, 2, 3, 5, 6, 8, 9, 11, 12, 14, 15, 17, 18}
IsoFixed ==
    [i \in {4, 7, 10, 13, 16, 19} |->
        IF i \in {4, 7} THEN Ord["-"]
        ELSE IF i = 10 THEN Ord["T"]
        ELSE IF i = 19 THEN Ord["Z"]
        ELSE Ord[":"]]

\* osmium::Timestamp{const char*} (osmium/osm/timestamp.hpp): the instant the 20
\* bytes at s name, or std::invalid_argument.  A NUL among the 20 bytes matches
\* nothing, so no byte behind the terminator is looked at.
Timestamp(buf, s) ==
    IF /\ s + 20 <= Len(buf)
       /\ \A i \in IsoDigitAt : IsDigit(Byte(buf, s + i))
       /\ \A i \in DOMAIN IsoFixed : Byte(buf, s + i) = IsoFixed[i]
       /\ Decimal(buf, s + 5, 2) \in 1..12
       /\ Decimal(buf, s + 8, 2) \in 1..31
       /\ Decimal(buf, s + 11, 2) <= 23
       /\ Decimal(buf, s + 14, 2) <= 59
       /\ Decimal(buf, s + 17, 2) <= 60
    THEN [ok |-> TRUE,
          val |-> << Decimal(buf, s, 4), Decimal(buf, s + 5, 2), Decimal(buf, s + 8, 2),
                     Decimal(buf, s + 11, 2), Decimal(buf, s + 14, 2),
                     Decimal(buf, s + 17, 2) >>]
    ELSE [ok |-> FALSE]

\* osmium::Timestamp{}: the unset timestamp.
UnsetTimestamp == << >>

\* opl_parse_timestamp moving the cursor by 19.
TimestampParsedShort(timestamp, s) ==
    IF timestamp.ok
    THEN [ok |-> TRUE, s |-> s + 19, val |-> timestamp.val]
    ELSE Throw("can not parse timestamp", s)

\* opl_parse_timestamp moving the cursor by 21.
TimestampParsedLong(timestamp, s) ==
    IF timestamp.ok
    THEN [ok |-> TRUE, s |-> s + 21, val |-> timestamp.val]
    ELSE Throw("can not parse timestamp", s)

\* The try block of opl_parse_timestamp once the constructor returned or
\* threw: *s += 20 and the timestamp, or the catch of std::invalid_argument.
TimestampParsed(timestamp, s) ==
    IF timestamp.ok
    THEN [ok |-> TRUE, s |-> s + 20, val |-> timestamp.val]
    ELSE Throw("can not parse timestamp", s)

opl_parse_timestamp(buf, s) ==
    IF Byte(buf, s) = NUL \/ Byte(buf, s) = Ord[" "] \/ Byte(buf, s) = TAB
    THEN [ok |-> TRUE, s |-> s, val |-> UnsetTimestamp]
    ELSE TimestampParsed(Timestamp(buf, s), s)

\* ---------------------------------------------------------- coordinates

\* osmium::Location::undefined_coordinate.
undefined_coordinate == 2147483647

\* osmium::Location{}: both coordinates undefined.
UndefinedLocation == [x |-> undefined_coordinate, y |-> undefined_coordinate]

\* Location::valid(): longitude within +-180 and latitude within +-90 degrees,
\* in units of 10^-7 degrees.
LocationValid(l) ==
    /\ l.x >= -1800000000 /\ l.x <= 1800000000
    /\ l.y >= -900000000 /\ l.y <= 900000000

RECURSIVE DigitRun(_, _, _)
\* The number of consecutive digit bytes at s, at most max.
DigitRun(buf, s, max) ==
    IF max > 0 /\ IsDigit(Byte(buf, s)) THEN 1 + DigitRun(buf, s + 1, max - 1) ELSE 0

RECURSIVE Pow10(_)
Pow10(k) == IF k = 0 THEN 1 ELSE 10 * Pow10(k - 1)

\* The number with ni integer digits at s1 and, after a '.', nf fraction digits,
\* in units of 10^-7.
CoordinateValue(buf, s, negative, s1, ni, nf) ==
    [ok |-> TRUE,
     s |-> IF nf >= 0 THEN s1 + ni + 1 + nf ELSE s1 + ni,
     val |-> (IF negative THEN -1 ELSE 1)
             * (Decimal(buf, s1, ni) * 10000000
                + (IF nf > 0 THEN Decimal(buf, s1 + ni + 1, nf) * Pow10(7 - nf) ELSE 0))]

CoordinateDigits(buf, s, negative, s1, ni) ==
    IF ni = 0 \/ ni > 3 THEN Throw("invalid location", s1)
    ELSE IF Decimal(buf, s1, ni) >= 214 THEN Throw("invalid location", s1)
    ELSE CoordinateValue(buf, s, negative, s1, ni,
                         IF Byte(buf, s1 + ni) = Ord["."]
                         THEN DigitRun(buf, s1 + ni + 1, 7) ELSE -1)

\* Location::set_lon_partial / set_lat_partial (osmium/osm/location.hpp): a signed
\* decimal with an optional fraction of up to seven digits, scaled by 10^7 into
\* a 32-bit coordinate; the cursor ends past the number.  A number without a
\* digit, or one beyond the 32-bit range, is malformed.
partial_coordinate(buf, s) ==
    IF Byte(buf, s) = Ord["-"]
    THEN CoordinateDigits(buf, s, TRUE, s + 1, DigitRun(buf, s + 1, 4))
    ELSE CoordinateDigits(buf, s, FALSE, s, DigitRun(buf, s, 4))

\* ---------------------------------------------------------- sub-grammars

\* The result r of the rest of a loop, with the cursor s the iteration before
\* it began with put in front of the cursors of r's iterations.
After(s, r) == IF r.ok THEN [r EXCEPT !.tops = << s >> \o @] ELSE r

RECURSIVE TagsLoop(_, _, _)
\* The while (true) loop of opl_parse_tags; key and value are empty at the top
\* of every iteration (fresh before the first, cleared after each ',').  tops
\* are the values s had at the top of the iterations.
TagsLoop(buf, s, tags) ==
    Then(opl_parse_string(buf, s, << >>), LAMBDA k :
    Then(opl_parse_char(buf, k.s, "="), LAMBDA eq :
    Then(opl_parse_string(buf, eq.s, << >>), LAMBDA v :
        IF Byte(buf, v.s) \in {Ord[" "], TAB, NUL}
        THEN [ok |-> TRUE, s |-> v.s, tags |-> Append(tags, << k.str, v.str >>),
              tops |-> << s >>]
        ELSE Then(opl_parse_char(buf, v.s, ","), LAMBDA comma :
                  After(s, TagsLoop(buf, comma.s, Append(tags, << k.str, v.str >>)))))))

\* opl_parse_tags: the tags the TagListBuilder received, and the cursor s at
\* the return.
opl_parse_tags(buf, s) == TagsLoop(buf, s, << >>)

\* osmium::Location location; if (*s == 'x') { ... if (*s == 'y') { ... } }
WayNodeLocation(buf, s) ==
    IF Byte(buf, s) = Ord["x"]
    THEN Then(partial_coordinate(buf, s + 1), LAMBDA lon :
              IF Byte(buf, lon.s) = Ord["y"]
              THEN Then(partial_coordinate(buf, lon.s + 1), LAMBDA lat :
                        [ok |-> TRUE, s |-> lat.s,
                         location |-> [x |-> lon.val, y |-> lat.val]])
              ELSE [ok |-> TRUE, s |-> lon.s,
                    location |-> [x |-> lon.val, y |-> undefined_coordinate]])
    ELSE [ok |-> TRUE, s |-> s, location |-> UndefinedLocation]

RECURSIVE WayNodesLoop(_, _, _, _)
\* The while (s < e) loop of opl_parse_way_nodes.
WayNodesLoop(buf, s, e, nodes) ==
    IF ~(s < e) THEN [ok |-> TRUE, s |-> s, nodes |-> nodes, tops |-> << >>]
    ELSE
    Then(opl_parse_char(buf, s, "n"), LAMBDA n :
        IF n.s = e THEN Throw("expected integer", n.s)
        ELSE
        Then(opl_parse_id(buf, n.s), LAMBDA ref :
            IF ref.s = e
            THEN [ok |-> TRUE, s |-> ref.s, tops |-> << s >>,
                  nodes |-> Append(nodes, [ref |-> ref.val,
                                           location |-> UndefinedLocation])]
            ELSE
            Then(WayNodeLocation(buf, ref.s), LAMBDA loc :
                IF loc.s = e
                THEN [ok |-> TRUE, s |-> loc.s, tops |-> << s >>,
                      nodes |-> Append(nodes, [ref |-> ref.val,
                                               location |-> loc.location])]
                ELSE
                Then(opl_parse_char(buf, loc.s, ","), LAMBDA comma :
                    After(s, WayNodesLoop(buf, comma.s, e,
                                          Append(nodes, [ref |-> ref.val,
                                                         location |-> loc.location])))))))

\* opl_parse_way_nodes over [s, e): the node references the WayNodeListBuilder
\* received.  Both pointers are NULL when the line has no N attribute.
opl_parse_way_nodes(buf, s, e) ==
    IF s = e THEN [ok |-> TRUE, s |-> s, nodes |-> << >>, tops |-> << >>]
    ELSE WayNodesLoop(buf, s, e, << >>)

\* osmium::char_to_item_type (osmium/osm/item_type.hpp) for the three kinds a
\* member may have; every other byte is some other item type.
char_to_item_type(b) ==
    IF b = Ord["n"] THEN "node"
    ELSE IF b = Ord["w"] THEN "way"
    ELSE IF b = Ord["r"] THEN "relation"
    ELSE "other"

RECURSIVE MembersLoop(_, _, _, _)
\* The while (s < e) loop of opl_parse_relation_members.
MembersLoop(buf, s, e, members) ==
    IF ~(s < e) THEN [ok |-> TRUE, s |-> s, members |-> members, tops |-> << >>]
    ELSE IF char_to_item_type(Byte(buf, s)) \notin {"node", "way", "relation"}
    THEN Throw("unknown object type", s)
    ELSE IF s + 1 = e THEN Throw("expected integer", s + 1)
    ELSE
    Then(opl_parse_id(buf, s + 1), LAMBDA ref :
    Then(opl_parse_char(buf, ref.s, "@"), LAMBDA at :
        IF at.s = e
        THEN [ok |-> TRUE, s |-> at.s, tops |-> << s >>,
              members |-> Append(members, [type |-> char_to_item_type(Byte(buf, s)),
                                           ref |-> ref.val, role |-> << >>])]
        ELSE
        Then(opl_parse_string(buf, at.s, << >>), LAMBDA role :
            IF role.s = e
            THEN [ok |-> TRUE, s |-> role.s, tops |-> << s >>,
                  members |-> Append(members, [type |-> char_to_item_type(Byte(buf, s)),
                                               ref |-> ref.val, role |-> role.str])]
            ELSE
            Then(opl_parse_char(buf, role.s, ","), LAMBDA comma :
                After(s, MembersLoop(buf, comma.s, e,
                                     Append(members, [type |-> char_to_item_type(Byte(buf, s)),
                                                      ref |-> ref.val, role |-> role.str])))))))

\* opl_parse_relation_members over [s, e).
opl_parse_relation_members(buf, s, e) ==
    IF s = e THEN [ok |-> TRUE, s |-> s, members |-> << >>, tops |-> << >>]
    ELSE MembersLoop(buf, s, e, << >>)

\* -------------------------------------------------------- entity parsers

Zero == [neg |-> FALSE, mag |-> << >>]

\* What a NodeBuilder, WayBuilder, RelationBuilder or ChangesetBuilder holds
\* before any setter is called (osmium/builder/osm_object_builder.hpp); location
\* is the node's location, and set_location records that it was called.
NewBuilder ==
    [id |-> Zero, version |-> Zero, visible |-> TRUE, changeset |-> Zero,
     timestamp |-> UnsetTimestamp, uid |-> Zero, user |-> << >>, user_set |-> FALSE,
     location |-> UndefinedLocation, location_set |-> FALSE,
     tags |-> << >>, nodes |-> << >>, members |-> << >>,
     num_changes |-> Zero, num_comments |-> Zero,
     created_at |-> UnsetTimestamp, closed_at |-> UnsetTimestamp,
     bounds |-> [bottom_left |-> UndefinedLocation, top_right |-> UndefinedLocation],
     bounds_set |-> FALSE]

\* The cursor s of a sub-parser: where it stood at the return and at the top
\* of each iteration of its loop; NotCalled before the call and without one.
NotCalled == [s |-> NULL, tops |-> << >>]

Cursor(r) == [s |-> r.s, tops |-> r.tops]

\* The locals of an entity parser at its construction: the cursor, the has_*
\* flags that are true, the deferred sections, the user string, the location
\* (node) or box (changeset) being assembled, and the builder; tags_s and
\* sect_s are the cursors of the sub-parsers it calls after the loop.
NewFrame(data) ==
    [data |-> data, has |-> {}, tags_begin |-> NULL,
     sect_begin |-> NULL, sect_end |-> NULL, tags_s |-> NotCalled, sect_s |-> NotCalled,
     user |-> << >>, location |-> UndefinedLocation,
     box |-> [bottom_left |-> UndefinedLocation, top_right |-> UndefinedLocation],
     builder |-> NewBuilder]

\* A switch case whose has_* flag stays false.
ContinueUnflagged(f) == [ok |-> TRUE, brk |-> FALSE, frame |-> [f EXCEPT !.has = {}]]

\* A switch case ran to its break: the loop goes on with frame f.
Continue(f) == [ok |-> TRUE, brk |-> FALSE, frame |-> f]

\* The cases 'v', 'd', 'c', 't', 'i', 'u' and 'T' of the switch, which the node,
\* way and relation parsers spell out alike (the changeset parser: 'i', 'u' and
\* 'T'); d is the cursor past the letter c.
MetaAttr(buf, f, c, d) ==
    IF c = Ord["v"] THEN
        IF "has_version" \in f.has THEN Throw("Duplicate attribute: version (v)", NULL)
        ELSE Then(opl_parse_version(buf, d), LAMBDA r :
                  Continue([f EXCEPT !.data = r.s, !.has = @ \cup {"has_version"},
                                     !.builder.version = r.val]))
    ELSE IF c = Ord["d"] THEN
        IF "has_visible" \in f.has THEN Throw("Duplicate attribute: visible (d)", NULL)
        ELSE Then(opl_parse_visible(buf, d), LAMBDA r :
                  Continue([f EXCEPT !.data = r.s, !.has = @ \cup {"has_visible"},
                                     !.builder.visible = r.val]))
    ELSE IF c = Ord["c"] THEN
        IF "has_changeset_id" \in f.has
        THEN Throw("Duplicate attribute: changeset_id (c)", NULL)
        ELSE Then(opl_parse_changeset_id(buf, d), LAMBDA r :
                  Continue([f EXCEPT !.data = r.s, !.has = @ \cup {"has_changeset_id"},
                                     !.builder.changeset = r.val]))
    ELSE IF c = Ord["t"] THEN
        IF "has_timestamp" \in f.has THEN Throw("Duplicate attribute: timestamp (t)", NULL)
        ELSE Then(opl_parse_timestamp(buf, d), LAMBDA r :
                  Continue([f EXCEPT !.data = r.s, !.has = @ \cup {"has_timestamp"},
                                     !.builder.timestamp = r.val]))
    ELSE IF c = Ord["i"] THEN
        IF "has_uid" \in f.has THEN Throw("Duplicate attribute: uid (i)", NULL)
        ELSE Then(opl_parse_uid(buf, d), LAMBDA r :
                  Continue([f EXCEPT !.data = r.s, !.has = @ \cup {"has_uid"},
                                     !.builder.uid = r.val]))
    ELSE IF c = Ord["u"] THEN
        IF "has_user" \in f.has THEN Throw("Duplicate attribute: user (u)", NULL)
        ELSE Then(opl_parse_string(buf, d, f.user), LAMBDA r :
                  Continue([f EXCEPT !.data = r.s, !.has = @ \cup {"has_user"},
                                     !.user = r.str]))
    ELSE \* c = 'T'
        IF "has_tags" \in f.has THEN Throw("Duplicate attribute: tags (T)", NULL)
        ELSE IF opl_non_empty(buf, d)
        THEN Continue([f EXCEPT !.data = opl_skip_section(buf, d),
                                !.has = @ \cup {"has_tags"}, !.tags_begin = d])
        ELSE Continue([f EXCEPT !.data = d, !.has = @ \cup {"has_tags"}])

MetaLetters == {Ord["v"], Ord["d"], Ord["c"], Ord["t"], Ord["i"], Ord["u"], Ord["T"]}

\* The default case without its --(*data).
UnknownAttributeAdvanced(d) == Throw("unknown attribute", d)

\* default: --(*data); throw opl_error{"unknown attribute", *data};
UnknownAttribute(d) == Throw("unknown attribute", d - 1)

\* The switch of opl_parse_node on the letter c; d is the cursor past it.
opl_parse_node_switch(buf, f, c, d) ==
    IF c \in MetaLetters THEN MetaAttr(buf, f, c, d)
    ELSE IF c = Ord["x"] THEN
        IF "has_lon" \in f.has THEN Throw("Duplicate attribute: lon (x)", NULL)
        ELSE IF opl_non_empty(buf, d)
        THEN Then(partial_coordinate(buf, d), LAMBDA r :
                  Continue([f EXCEPT !.data = r.s, !.has = @ \cup {"has_lon"},
                                     !.location.x = r.val]))
        ELSE Continue([f EXCEPT !.data = d, !.has = @ \cup {"has_lon"}])
    ELSE IF c = Ord["y"] THEN
        IF "has_lat" \in f.has THEN Throw("Duplicate attribute: lat (y)", NULL)
        ELSE IF opl_non_empty(buf, d)
        THEN Then(partial_coordinate(buf, d), LAMBDA r :
                  Continue([f EXCEPT !.data = r.s, !.has = @ \cup {"has_lat"},
                                     !.location.y = r.val]))
        ELSE Continue([f EXCEPT !.data = d, !.has = @ \cup {"has_lat"}])
    ELSE UnknownAttribute(d)

\* The switch of opl_parse_way.
opl_parse_way_switch(buf, f, c, d) ==
    IF c \in MetaLetters THEN MetaAttr(buf, f, c, d)
    ELSE IF c = Ord["N"] THEN
        IF "has_nodes" \in f.has THEN Throw("Duplicate attribute: nodes (N)", NULL)
        ELSE Continue([f EXCEPT !.data = opl_skip_section(buf, d),
                                !.has = @ \cup {"has_nodes"},
                                !.sect_begin = d,
                                !.sect_end = opl_skip_section(buf, d)])
    ELSE UnknownAttribute(d)

\* The switch of opl_parse_relation.
opl_parse_relation_switch(buf, f, c, d) ==
    IF c \in MetaLetters THEN MetaAttr(buf, f, c, d)
    ELSE IF c = Ord["M"] THEN
        IF "has_members" \in f.has THEN Throw("Duplicate attribute: members (M)", NULL)
        ELSE Continue([f EXCEPT !.data = opl_skip_section(buf, d),
                                !.has = @ \cup {"has_members"},
                                !.sect_begin = d,
                                !.sect_end = opl_skip_section(buf, d)])
    ELSE UnknownAttribute(d)

\* The switch of opl_parse_changeset.
opl_parse_changeset_switch(buf, f, c, d) ==
    IF c = Ord["k"] THEN
        IF "has_num_changes" \in f.has
        THEN Throw("Duplicate attribute: num_changes (k)", NULL)
        ELSE Then(opl_parse_int(buf, d, num_changes_type), LAMBDA r :
                  Continue([f EXCEPT !.data = r.s, !.has = @ \cup {"has_num_changes"},
                                     !.builder.num_changes = r.val]))
    ELSE IF c = Ord["s"] THEN
        IF "has_created_at" \in f.has
        THEN Throw("Duplicate attribute: created_at (s)", NULL)
        ELSE Then(opl_parse_timestamp(buf, d), LAMBDA r :
                  Continue([f EXCEPT !.data = r.s, !.has = @ \cup {"has_created_at"},
                                     !.builder.created_at = r.val]))
    ELSE IF c = Ord["e"] THEN
        IF "has_closed_at" \in f.has
        THEN Throw("Duplicate attribute: closed_at (e)", NULL)
        ELSE Then(opl_parse_timestamp(buf, d), LAMBDA r :
                  Continue([f EXCEPT !.data = r.s, !.has = @ \cup {"has_closed_at"},
                                     !.builder.closed_at = r.val]))
    ELSE IF c = Ord["d"] THEN
        IF "has_num_comments" \in f.has
        THEN Throw("Duplicate attribute: num_comments (d)", NULL)
        ELSE Then(opl_parse_int(buf, d, num_comments_type), LAMBDA r :
                  Continue([f EXCEPT !.data = r.s, !.has = @ \cup {"has_num_comments"},
                                     !.builder.num_comments = r.val]))
    ELSE IF c \in {Ord["i"], Ord["u"], Ord["T"]} THEN MetaAttr(buf, f, c, d)
    ELSE IF c = Ord["x"] THEN
        IF "has_min_x" \in f.has THEN Throw("Duplicate attribute: min_x (x)", NULL)
        ELSE IF opl_non_empty(buf, d)
        THEN Then(partial_coordinate(buf, d), LAMBDA r :
                  Continue([f EXCEPT !.data = r.s, !.has = @ \cup {"has_min_x"},
                                     !.box.bottom_left.x = r.val]))
        ELSE Continue([f EXCEPT !.data = d, !.has = @ \cup {"has_min_x"}])
    ELSE IF c = Ord["y"] THEN
        IF "has_min_y" \in f.has THEN Throw("Duplicate attribute: min_y (y)", NULL)
        ELSE IF opl_non_empty(buf, d)
        THEN Then(partial_coordinate(buf, d), LAMBDA r :
                  Continue([f EXCEPT !.data = r.s, !.has = @ \cup {"has_min_y"},
                                     !.box.bottom_left.y = r.val]))
        ELSE Continue([f EXCEPT !.data = d, !.has = @ \cup {"has_min_y"}])
    ELSE IF c = Ord["X"] THEN
        IF "has_max_x" \in f.has THEN Throw("Duplicate attribute: max_x (X)", NULL)
        ELSE IF opl_non_empty(buf, d)
        THEN Then(partial_coordinate(buf, d), LAMBDA r :
                  Continue([f EXCEPT !.data = r.s, !.has = @ \cup {"has_max_x"},
                                     !.box.top_right.x = r.val]))
        ELSE Continue([f EXCEPT !.data = d, !.has = @ \cup {"has_max_x"}])
    ELSE IF c = Ord["Y"] THEN
        IF "has_max_y" \in f.has THEN Throw("Duplicate attribute: max_y (Y)", NULL)
        ELSE IF opl_non_empty(buf, d)
        THEN Then(partial_coordinate(buf, d), LAMBDA r :
                  Continue([f EXCEPT !.data = r.s, !.has = @ \cup {"has_max_y"},
                                     !.box.top_right.y = r.val]))
        ELSE Continue([f EXCEPT !.data = d, !.has = @ \cup {"has_max_y"}])
    ELSE UnknownAttribute(d)

\* The switch with a case 'v' of the node, way and relation parsers that reads
\* the version before it tests has_version.
SwitchValueFirst(k, buf, f, c, d) ==
    IF c = Ord["v"] /\ k # "changeset"
    THEN Then(opl_parse_version(buf, d), LAMBDA r :
              IF "has_version" \in f.has
              THEN Throw("Duplicate attribute: version (v)", NULL)
              ELSE Continue([f EXCEPT !.data = r.s, !.has = @ \cup {"has_version"},
                                      !.builder.version = r.val]))
    ELSE IF k = "node" THEN opl_parse_node_switch(buf, f, c, d)
    ELSE IF k = "way" THEN opl_parse_way_switch(buf, f, c, d)
    ELSE IF k = "relation" THEN opl_parse_relation_switch(buf, f, c, d)
    ELSE opl_parse_changeset_switch(buf, f, c, d)

\* The switch of the entity parser of an entity kind.
Switch(k, buf, f, c, d) ==
    IF k = "node" THEN opl_parse_node_switch(buf, f, c, d)
    ELSE IF k = "way" THEN opl_parse_way_switch(buf, f, c, d)
    ELSE IF k = "relation" THEN opl_parse_relation_switch(buf, f, c, d)
    ELSE opl_parse_changeset_switch(buf, f, c, d)

\* One pass of the while (**data) loop of an entity parser, entered with
\* **data # 0: opl_parse_space, the letter, the switch.  brk says the loop was
\* left by the break at the end of the line; letter is the byte the switch was
\* entered with and letter_at its offset.
LoopBody(k, buf, f) ==
    Then(opl_parse_space(buf, f.data), LAMBDA sp :
        IF Byte(buf, sp.s) = NUL
        THEN [ok |-> TRUE, brk |-> TRUE, frame |-> [f EXCEPT !.data = sp.s]]
        ELSE Switch(k, buf, f, Byte(buf, sp.s), sp.s + 1)
             @@ [letter |-> Byte(buf, sp.s), letter_at |-> sp.s])

\* The code after the loop without its call of opl_parse_tags.
DeferredTagsSkipped(buf, f) == [ok |-> TRUE, tags |-> << >>, s |-> NULL, tops |-> << >>]

\* if (tags_begin) { opl_parse_tags(tags_begin, buffer, &builder); }
DeferredTags(buf, f) ==
    IF f.tags_begin # NULL THEN opl_parse_tags(buf, f.tags_begin)
    ELSE [ok |-> TRUE, tags |-> << >>, s |-> NULL, tops |-> << >>]

\* if (members_begin != members_end) { opl_parse_relation_members(...); }
DeferredMembers(buf, f) ==
    IF f.sect_begin # f.sect_end
    THEN opl_parse_relation_members(buf, f.sect_begin, f.sect_end)
    ELSE [ok |-> TRUE, members |-> << >>, s |-> NULL, tops |-> << >>]

\* builder.set_location(location) without the test of location.valid().
set_location_unchecked(b, location) ==
    [b EXCEPT !.location = location, !.location_set = TRUE]

\* if (location.valid()) { builder.set_location(location); }
set_location(b, location) ==
    IF LocationValid(location)
    THEN [b EXCEPT !.location = location, !.location_set = TRUE]
    ELSE b

\* builder.set_user(user);
set_user(b, user) == [b EXCEPT !.user = user, !.user_set = TRUE]

\* builder.set_bounds(box);
set_bounds(b, box) == [b EXCEPT !.bounds = box, !.bounds_set = TRUE]

\* The code of opl_parse_node after its loop.
opl_parse_node_finish(buf, f) ==
    Then(DeferredTags(buf, f), LAMBDA t :
        [ok |-> TRUE,
         frame |-> [f EXCEPT !.tags_s = Cursor(t),
                             !.builder =
                       [set_user(set_location(f.builder, f.location), f.user)
                           EXCEPT !.tags = t.tags]]])

\* The code of opl_parse_way after its loop with the way nodes parsed before
\* the tags.
opl_parse_way_finish_nodes_first(buf, f) ==
    Then(opl_parse_way_nodes(buf, f.sect_begin, f.sect_end), LAMBDA n :
    Then(DeferredTags(buf, f), LAMBDA t :
        [ok |-> TRUE,
         frame |-> [f EXCEPT !.tags_s = Cursor(t), !.sect_s = Cursor(n),
                             !.builder =
                       [set_user(f.builder, f.user)
                           EXCEPT !.tags = t.tags, !.nodes = n.nodes]]]))

\* The code of opl_parse_way after its loop.
opl_parse_way_finish(buf, f) ==
    Then(DeferredTags(buf, f), LAMBDA t :
    Then(opl_parse_way_nodes(buf, f.sect_begin, f.sect_end), LAMBDA n :
        [ok |-> TRUE,
         frame |-> [f EXCEPT !.tags_s = Cursor(t), !.sect_s = Cursor(n),
                             !.builder =
                       [set_user(f.builder, f.user)
                           EXCEPT !.tags = t.tags, !.nodes = n.nodes]]]))

\* The code of opl_parse_relation after its loop.
opl_parse_relation_finish(buf, f) ==
    Then(DeferredTags(buf, f), LAMBDA t :
    Then(DeferredMembers(buf, f), LAMBDA m :
        [ok |-> TRUE,
         frame |-> [f EXCEPT !.tags_s = Cursor(t), !.sect_s = Cursor(m),
                             !.builder =
                       [set_user(f.builder, f.user)
                           EXCEPT !.tags = t.tags, !.members = m.members]]]))

\* The code of opl_parse_changeset after its loop.
opl_parse_changeset_finish(buf, f) ==
    Then(DeferredTags(buf, f), LAMBDA t :
        [ok |-> TRUE,
         frame |-> [f EXCEPT !.tags_s = Cursor(t),
                             !.builder =
                       [set_user(set_bounds(f.builder, f.box), f.user)
                           EXCEPT !.tags = t.tags]]])

Finish(k, buf, f) ==
    IF k = "node" THEN opl_parse_node_finish(buf, f)
    ELSE IF k = "way" THEN opl_parse_way_finish(buf, f)
    ELSE IF k = "relation" THEN opl_parse_relation_finish(buf, f)
    ELSE opl_parse_changeset_finish(buf, f)

\* -------------------------------------------------------- opl_parse_line

\* The switch of opl_parse_line without its case '#'.
MarkerKindNoComment(b) ==
    IF b = NUL THEN "ignore"
    ELSE IF b = Ord["n"] THEN "node"
    ELSE IF b = Ord["w"] THEN "way"
    ELSE IF b = Ord["r"] THEN "relation"
    ELSE IF b = Ord["c"] THEN "changeset"
    ELSE "unknown"

\* The first byte of the line, as the cases of the switch of opl_parse_line
\* tell it apart: an ignored line, an entity kind, or the default.
MarkerKind(b) ==
    IF b = NUL \/ b = Ord["#"] THEN "ignore"
    ELSE IF b = Ord["n"] THEN "node"
    ELSE IF b = Ord["w"] THEN "way"
    ELSE IF b = Ord["r"] THEN "relation"
    ELSE IF b = Ord["c"] THEN "changeset"
    ELSE "unknown"

\* osmium::osm_entity_bits: read_types is the set of the bits that are set.
EntityBits == {"node", "way", "relation", "changeset"}

\* An opl_error in flight: what() without the "OPL error: " prefix, the data
\* pointer, and line and column with the number of set_pos calls so far.
Thrown(what, d) ==
    [msg |-> what, data |-> d, line |-> 0, column |-> 0, set_pos_calls |-> 0]

NoError == Thrown("", NULL)

\* opl_error::set_pos; the text " on line l column col" it appends to the message
\* is the pair (line, column).
set_pos(e, l, col) ==
    [e EXCEPT !.line = l, !.column = col, !.set_pos_calls = @ + 1]

\* The column without the test of e.data.
ErrorColumnUnchecked(e, start) == e.data - start

\* e.data ? e.data - start_of_line : 0
ErrorColumn(e, start) ==
    IF e.data # NULL THEN e.data - start ELSE 0

VARIABLES
    line,         \* data: the NUL-terminated buffer handed to opl_parse_line
    read_types,   \* the kind-mask
    line_count,   \* the line number
    wellformed,   \* the line was built as an entity line of the grammar
    pc,           \* where the call is
    kind,         \* the entity parser that was entered
    frame,        \* its locals
    letters,      \* the attribute letters its switch was entered with, in order,
                  \* each with its offset in the line
    buffer,       \* the entities committed to the buffer
    result,       \* "none" during the call, then "true", "false" or "error"
    err,          \* the opl_error thrown
    scan          \* a direct call of a scalar scanner and what it returned

vars ==
    << line, read_types, line_count, wellformed, pc, kind, frame, letters, buffer,
       result, err, scan >>

\* const char* start_of_line = data;
start_of_line == 0

NoScan == [fn |-> "none"]

\* The case of the switch of opl_parse_line for a first byte of kind k.
DispatchCase(k) ==
    IF k = "ignore"
    THEN /\ result' = "false"
         /\ pc' = "done"
         /\ UNCHANGED << kind, frame, err >>
    ELSE IF k = "unknown"
    THEN /\ err' = Thrown("unknown type", start_of_line)
         /\ pc' = "catch"
         /\ UNCHANGED << kind, frame, result >>
    ELSE IF k \in read_types
    THEN /\ kind' = k
         /\ frame' = NewFrame(start_of_line + 1)
         /\ pc' = "id"
         /\ UNCHANGED << result, err >>
    ELSE /\ result' = "false"
         /\ pc' = "done"
         /\ UNCHANGED << kind, frame, err >>

\* The switch of opl_parse_line up to the call of the entity parser.
Dispatch ==
    /\ pc = "start"
    /\ DispatchCase(MarkerKind(Byte(line, start_of_line)))
    /\ UNCHANGED << line, read_types, line_count, wellformed, letters, buffer, scan >>

\* A scanner threw inside an entity parser: the builder and the locals are
\* gone, the error is on its way to the catch of opl_parse_line.
Raise(r) ==
    /\ err' = Thrown(r.msg, r.at)
    /\ pc' = "catch"
    /\ UNCHANGED frame

\* builder.set_id(...) with what the id scanner returned, or its exception.
SetId(r) ==
    IF r.ok
    THEN /\ frame' = [frame EXCEPT !.data = r.s, !.builder.id = r.val]
         /\ pc' = "loop"
         /\ UNCHANGED err
    ELSE Raise(r)

\* builder.set_id(opl_parse_id(data)), for a changeset opl_parse_changeset_id.
EntityId(k) ==
    /\ pc = "id"
    /\ kind = k
    /\ SetId(IF k = "changeset" THEN opl_parse_changeset_id(line, frame.data)
             ELSE opl_parse_id(line, frame.data))
    /\ UNCHANGED << line, read_types, line_count, wellformed, kind, letters, buffer,
                    result, scan >>

\* What a pass r of the loop leaves: the locals, or its exception.
LoopPass(r) ==
    /\ letters' = IF "letter" \in DOMAIN r
                  THEN Append(letters, [letter |-> r.letter, at |-> r.letter_at])
                  ELSE letters
    /\ IF r.ok
       THEN /\ frame' = r.frame
            /\ pc' = IF r.brk THEN "finish" ELSE "loop"
            /\ UNCHANGED err
       ELSE Raise(r)

\* The test of while (**data) and, when it holds, one pass of the loop.
EntityLoop(k) ==
    /\ pc = "loop"
    /\ kind = k
    /\ IF Byte(line, frame.data) = NUL
       THEN /\ pc' = "finish"
            /\ UNCHANGED << frame, letters, err >>
       ELSE LoopPass(LoopBody(k, line, frame))
    /\ UNCHANGED << line, read_types, line_count, wellformed, kind, buffer, result, scan >>

\* What the code after the loop leaves: the finished builder, or its exception.
Finished(r) ==
    IF r.ok
    THEN /\ frame' = r.frame
         /\ pc' = "commit"
         /\ UNCHANGED err
    ELSE Raise(r)

\* The code of the entity parser after the loop: the deferred sections.
EntityFinish(k) ==
    /\ pc = "finish"
    /\ kind = k
    /\ Finished(Finish(k, line, frame))
    /\ UNCHANGED << line, read_types, line_count, wellformed, kind, letters, buffer,
                    result, scan >>

NodeId == EntityId("node")
NodeLoop == EntityLoop("node")
NodeFinish == EntityFinish("node")
WayId == EntityId("way")
WayLoop == EntityLoop("way")
WayFinish == EntityFinish("way")
RelationId == EntityId("relation")
RelationLoop == EntityLoop("relation")
RelationFinish == EntityFinish("relation")
ChangesetId == EntityId("changeset")
ChangesetLoop == EntityLoop("changeset")
ChangesetFinish == EntityFinish("changeset")

\* opl_parse_line without its buffer.commit(): return true alone.
CommitLost ==
    /\ pc = "commit"
    /\ result' = "true"
    /\ pc' = "done"
    /\ UNCHANGED << line, read_types, line_count, wellformed, kind, frame, letters,
                    buffer, err, scan >>

\* buffer.commit(); return true;
Commit ==
    /\ pc = "commit"
    /\ buffer' = Append(buffer, [type |-> kind, item |-> frame.builder])
    /\ result' = "true"
    /\ pc' = "done"
    /\ UNCHANGED << line, read_types, line_count, wellformed, kind, frame, letters,
                    err, scan >>

\* catch (opl_error& e) { e.set_pos(...); throw; }
Catch ==
    /\ pc = "catch"
    /\ err' = set_pos(err, line_count, ErrorColumn(err, start_of_line))
    /\ result' = "error"
    /\ pc' = "done"
    /\ UNCHANGED << line, read_types, line_count, wellformed, kind, frame, letters,
                    buffer, scan >>

\* ---------------------------------------------------------------- inputs

\* The longest run of attribute fields the lines are built with.
MaxFields == 3

\* A NUL-terminated buffer holding a text.
Z(t) == B(t) \o << NUL >>

\* An attribute field: the text " <letter><payload>", and whether it is a
\* field of the grammar (one the spec says is well formed).
Field(t, wf) ==
    [text |-> t, wf |-> wf, letter |-> Byte(Z(t), SkipBlanks(Z(t), 0))]

\* Fields of the attributes the node, way and relation lines share.
MetaFields ==
    { Field(" v1", TRUE), Field(" v2", TRUE), Field(" v", FALSE), Field(" vX", FALSE),
      Field(" v4294967295", TRUE), Field(" v4294967296", FALSE), Field(" v-1", FALSE),
      Field("\tv2", TRUE), Field("  v3", TRUE),
      Field(" dV", TRUE), Field(" dD", TRUE), Field(" dX", FALSE),
      Field(" c9", TRUE), Field(" c", FALSE),
      Field(" t2016-03-04T12:34:56Z", TRUE), Field(" t", TRUE),
      Field(" t2016-03-04T12:34:56", FALSE), Field(" t2016-03-04T12:34:56Zx", FALSE),
      Field(" t2016-13-04T12:34:56Z", FALSE),
      Field(" i42", TRUE), Field(" i-0", TRUE), Field(" ix", FALSE),
      Field(" ualice", TRUE), Field(" u", TRUE), Field(" ua%20%b", TRUE),
      Field(" u%0000041%", TRUE), Field(" u%00000041%", TRUE), Field(" u%%", FALSE),
      Field(" u%4g%", FALSE), Field(" u%41", FALSE), Field(" ua=b", FALSE),
      Field(" ua,b", FALSE),
      Field(" T", FALSE), Field(" Ta=b", TRUE), Field(" Tk=v,l=w", TRUE),
      Field(" Ta", FALSE), Field(" Ta=b,", FALSE), Field(" Ta=b=c", FALSE),
      Field(" Ta=%E9%", TRUE), Field(" Ta=%zz%", FALSE), Field(" T=", FALSE),
      Field(" Ta=b;c", TRUE),
      Field(" z5", FALSE), Field(" ", FALSE), Field("v1", FALSE), Field(" V1", FALSE) }

NodeFields ==
    MetaFields \cup
    { Field(" x8.4234", TRUE), Field(" y49.0123", TRUE), Field(" x", FALSE),
      Field(" y", FALSE), Field(" x-1.5", TRUE), Field(" xa", FALSE),
      Field(" y.", FALSE), Field(" x1y2", FALSE), Field(" N", FALSE), Field(" M", FALSE) }

WayFields ==
    MetaFields \cup
    { Field(" Nn1", TRUE), Field(" Nn100,n101x8.1y49.2,n102", TRUE), Field(" N", FALSE),
      Field(" Nn1,", FALSE), Field(" Nn1,,n2", FALSE), Field(" Nn", FALSE),
      Field(" Nx1", FALSE), Field(" Nn1x", FALSE), Field(" Nn1x1", TRUE),
      Field(" Nn1n2", FALSE), Field(" Nn1x1y", FALSE), Field(" Nn-5", TRUE),
      Field(" Nn1,n", FALSE), Field(" x1", FALSE) }

RelationFields ==
    MetaFields \cup
    { Field(" Mn1@from,w2@via,r3@", TRUE), Field(" Mn1@", TRUE), Field(" Mw2@a", TRUE),
      Field(" M", FALSE), Field(" Mn1@a,", FALSE), Field(" Mn1", FALSE),
      Field(" Mx1@", FALSE), Field(" Mn@", FALSE), Field(" Mn1@a,,w2@", FALSE),
      Field(" Mn1@,w2@b", TRUE), Field(" Mn1@a=b", FALSE), Field(" Mn1@%20%", TRUE),
      Field(" Mn1@%", FALSE), Field(" Mn", FALSE), Field(" Mc1@", FALSE),
      Field(" N", FALSE) }

ChangesetFields ==
    { Field(" k100", TRUE), Field(" k", FALSE), Field(" kX", FALSE), Field(" k-1", FALSE),
      Field(" s2016-01-01T00:00:00Z", TRUE), Field(" s", TRUE), Field(" sX", FALSE),
      Field(" e2016-01-02T00:00:00Z", TRUE), Field(" e2016", FALSE),
      Field(" d3", TRUE), Field(" dV", FALSE),
      Field(" i1", TRUE), Field(" ubob", TRUE), Field(" u%00000041%", TRUE),
      Field(" u%%", FALSE),
      Field(" x1.0", TRUE), Field(" y2.0", TRUE), Field(" X3.0", TRUE),
      Field(" Y4.0", TRUE), Field(" x", FALSE), Field(" y", FALSE), Field(" X", FALSE),
      Field(" Y", FALSE), Field(" Xa", FALSE),
      Field(" Tcomment=hi", TRUE), Field(" T", FALSE), Field(" Ta", FALSE),
      Field(" Ta=b,", FALSE),
      Field(" z5", FALSE), Field(" v1", FALSE), Field(" c1", FALSE), Field(" t", FALSE),
      Field(" ", FALSE), Field("\tk2", TRUE), Field("k1", FALSE) }

\* The fields the runs of up to MaxFields fields are drawn from, per kind.
NodeCore ==
    { Field(" v1", TRUE), Field(" Ta=b", TRUE), Field(" Ta", FALSE), Field(" x", FALSE),
      Field(" x1.5", TRUE), Field(" z5", FALSE) }

WayCore ==
    { Field(" v1", TRUE), Field(" Ta=b", TRUE), Field(" Ta", FALSE), Field(" Nn1", TRUE),
      Field(" Nn1,", FALSE), Field(" z5", FALSE) }

RelationCore ==
    { Field(" v1", TRUE), Field(" Ta=b", TRUE), Field(" Ta", FALSE), Field(" Mn1@", TRUE),
      Field(" Mn1@a,", FALSE), Field(" z5", FALSE) }

ChangesetCore ==
    { Field(" k1", TRUE), Field(" Ta=b", TRUE), Field(" Ta", FALSE), Field(" x", FALSE),
      Field(" X1", TRUE), Field(" z5", FALSE) }

\* The texts in the place of the id, and whether each is an int of the grammar
\* within the id's type: object ids are signed 64-bit, changeset ids unsigned
\* 32-bit.
ObjectIds ==
    { Field("1", TRUE), Field("17", TRUE), Field("-5", TRUE), Field("0", TRUE),
      Field("", FALSE), Field("-", FALSE), Field("x", FALSE),
      Field("999999999999999", TRUE), Field("1000000000000000", FALSE),
      Field("4294967296", TRUE), Field("1x", FALSE) }

ChangesetIds ==
    { Field("1", TRUE), Field("42", TRUE), Field("-5", FALSE), Field("0", TRUE),
      Field("", FALSE), Field("-", FALSE), Field("x", FALSE),
      Field("4294967295", TRUE), Field("4294967296", FALSE), Field("1x", FALSE) }

\* The runs of at most n fields of F.
FieldRuns(F, n) == UNION { [1..k -> F] : k \in 0..n }

RECURSIVE Texts(_)
\* The texts of a run of fields, one after the other.
Texts(fs) == IF fs = << >> THEN "" ELSE Head(fs).text \o Texts(Tail(fs))

\* The line marker id fields: its buffer, and whether it is an entity line of
\* the grammar: the id and every field are, and no letter occurs twice.
EntityLine(marker, id, fs) ==
    [bytes |-> Z(marker \o id.text \o Texts(fs)),
     wf |-> /\ id.wf
            /\ \A i \in 1..Len(fs) : fs[i].wf
            /\ \A i, j \in 1..Len(fs) : i # j => fs[i].letter # fs[j].letter]

\* The id 1.
One == Field("1", TRUE)

\* The lines of one kind: runs of core fields after the id 1; every id before
\* at most one core field; every field before, after and around a core field.
EntityLines(marker, ids, core, fields) ==
    { EntityLine(marker, One, fs) : fs \in FieldRuns(core, MaxFields) }
    \cup { EntityLine(marker, id, fs) : id \in ids, fs \in FieldRuns(core, 1) }
    \cup { EntityLine(marker, One, << f >>) : f \in fields }
    \cup { EntityLine(marker, One, << f, g >>) : f \in fields, g \in core }
    \cup { EntityLine(marker, One, << g, f >>) : f \in fields, g \in core }
    \cup { EntityLine(marker, One, << f, g, f >>) : f \in fields, g \in core }

\* The lines of the concrete scenarios.
ScenarioLines ==
    { [bytes |-> Z(t), wf |-> TRUE] : t \in
        { "n17 v1 dV c123 t2016-03-04T12:34:56Z i42 ualice Tamenity=bench x8.4234 y49.0123",
          "w5 v2 dV c9 Thighway=residential Nn100,n101x8.1y49.2,n102",
          "r7 Mn1@from,w2@via,r3@",
          "c42 k100 s2016-01-01T00:00:00Z e2016-01-02T00:00:00Z d3 i1 ubob x1.0 y2.0 X3.0 Y4.0 Tcomment=hi",
          "n1 Tname=Caf%C3%A9",
          "n1 Tname=Caf%E9%" } }

\* Lines that are no entity: empty lines (also with bytes behind the
\* terminator), comments, and lines with another first byte.
OtherLines ==
    { [bytes |-> b, wf |-> FALSE] : b \in
        { Z(""), << NUL >> \o Z("n1 v1"), << NUL >> \o Z("x"),
          Z("#"), Z("# a comment"), Z("#n1 v1"), Z("#x"),
          Z("x1 v1"), Z(" n1"), Z("\tn1"), Z("N1"), Z("W1 v1"), Z("1"), Z("-"),
          Z("%6e%1"), Z("a"), Z("d"), Z("C1"), Z("R1 Mn1@"), Z("~") } }

\* Entity lines in a buffer that holds more bytes behind the NUL of the line.
TailLines ==
    { [bytes |-> Z(t[1]) \o Z(t[2]), wf |-> t[3]] : t \in
        { << "n1 v1", " v1", TRUE >>, << "w1 Nn1", ",n2 z5", TRUE >>,
          << "n1 t2016-03-04T12:34:5", "6Z", FALSE >>, << "n1 Ta", "=b", FALSE >>,
          << "r1 Mn1@", "a=b", TRUE >>, << "n1 u%4", "1%", FALSE >>,
          << "c1 x", "1.5 z", FALSE >>, << "w1 Ta=b,c=d Nn1,n2", "x", TRUE >> } }

Lines ==
    TailLines
    \cup EntityLines("n", ObjectIds, NodeCore, NodeFields)
    \cup EntityLines("w", ObjectIds, WayCore, WayFields)
    \cup EntityLines("r", ObjectIds, RelationCore, RelationFields)
    \cup EntityLines("c", ChangesetIds, ChangesetCore, ChangesetFields)
    \cup ScenarioLines
    \cup OtherLines

\* The kind-masks.
Masks == SUBSET EntityBits

\* The line numbers.
LineCounts == {1, 7}

\* --------------------------------------------------------- specification

Init ==
    /\ \E l \in Lines :
        /\ line = l.bytes
        /\ wellformed = l.wf
    /\ read_types \in Masks
    /\ line_count \in LineCounts
    /\ pc = "start"
    /\ kind = "none"
    /\ frame = NewFrame(start_of_line)
    /\ letters = << >>
    /\ buffer = << >>
    /\ result = "none"
    /\ err = NoError
    /\ scan = NoScan

Next ==
    \/ Dispatch
    \/ NodeId \/ NodeLoop \/ NodeFinish
    \/ WayId \/ WayLoop \/ WayFinish
    \/ RelationId \/ RelationLoop \/ RelationFinish
    \/ ChangesetId \/ ChangesetLoop \/ ChangesetFinish
    \/ Commit
    \/ Catch

Spec == Init /\ [][Next]_vars

\* ------------------------------------------- calls of the scalar scanners

\* The longest run of decimal digits the integer inputs are built with.
MaxDigits == 17

\* The longest run of hex digits the escape inputs are built with.
MaxHex == 10

\* The most pieces (plain bytes and escapes) a string input is built from.
MaxPieces == 3

RECURSIVE Rep(_, _)
\* The text t, n times.
Rep(t, n) == IF n = 0 THEN "" ELSE t \o Rep(t, n - 1)

RECURSIVE Join(_)
\* The texts of a tuple, one after the other.
Join(ts) == IF ts = << >> THEN "" ELSE Head(ts) \o Join(Tail(ts))

\* What stands behind an integer in a line.
IntTails == {"", " v1", "x", "-", ",n2", "@a", ".5"}

\* The digit runs: repeated digits of every length, and the values around the
\* limits of the types.
IntDigits ==
    { Rep(d, n) : d \in {"0", "1", "9"}, n \in 0..MaxDigits }
    \cup { "4294967295", "4294967296", "4294967294", "2147483648", "42949672950",
           "04294967295", "000000000000001", "0000000000000001", "17", "100",
           "999999999999999", "1000000000000000", "9223372036854775807",
           "9223372036854775808" }

IntTexts == { sign \o d \o t : sign \in {"", "-"}, d \in IntDigits, t \in IntTails }

\* What stands behind the opening '%' of an escape: a hex run and what ends it.
HexRuns ==
    { Rep(h, n) : h \in {"0", "4", "f", "A"}, n \in 0..MaxHex }
    \cup { "41", "E9", "e9", "C3", "7f", "80", "7FF", "800", "FFFF", "10000", "1F600",
           "10FFFF", "110000", "0000041", "00000041", "000000041", "FFFFFFF",
           "FFFFFFFF", "12345678", "1234567", "aBc", "20", "2c", "3D", "25" }

EscapedTexts == { h \o t : h \in HexRuns, t \in {"%", "%x", "", "g%", " ", "%%", "G", "-1%"} }

\* The pieces of a string and what ends it.
StringPieces == {"a", "%41%", "%E9%", "%", "%4g%", "%00000041%"}

StringTails == {"", " ", "\t", ",x", "=y z"}

StringTexts ==
    { Join(ps) \o t : ps \in UNION { [1..k -> StringPieces] : k \in 0..MaxPieces },
                      t \in StringTails }

\* A timestamp of the 20-byte form, and texts that differ from one: a byte
\* replaced, a shorter text, fields out of their range.
IsoText == "2016-03-04T12:34:56Z"

TimestampTexts ==
    { ts \o t :
        ts \in { IsoText, "0000-01-01T00:00:00Z", "9999-12-31T23:59:60Z", "2016-02-30T00:00:00Z",
                 "2016-00-04T12:34:56Z", "2016-13-04T12:34:56Z", "2016-03-00T12:34:56Z",
                 "2016-03-32T12:34:56Z", "2016-03-04T24:34:56Z", "2016-03-04T12:60:56Z",
                 "2016-03-04T12:34:61Z", "2016-03-04t12:34:56z", "20160304T123456Z" }
            \cup { SubSeq(IsoText, 1, i - 1) \o c \o SubSeq(IsoText, i + 1, 20) :
                     i \in 1..20, c \in {"x", "7", " "} }
            \cup { SubSeq(IsoText, 1, n) : n \in 0..19 },
        t \in {"", " v1", "\t", "x", "Z"} }

\* The most elements a tag, way-node or member section is built from.
MaxItems == 3

RECURSIVE JoinWith(_, _)
\* The texts of a non-empty tuple with the text sep between them.
JoinWith(ts, sep) ==
    IF Len(ts) = 1 THEN Head(ts) ELSE Head(ts) \o sep \o JoinWith(Tail(ts), sep)

\* The sections of up to MaxItems of the items, ',' between them, and what
\* stands behind the section in the line.
Sections(items, tails) ==
    { JoinWith(is, ",") \o t :
        is \in UNION { [1..k -> items] : k \in 1..MaxItems }, t \in tails }

\* The elements of tag sections.
TagItems ==
    { "a=b", "=", "a", "", "a=b=c", "x%E9%=%41%y", "a=%00000041%", "a=%4g%" }

\* The elements of way-node sections.
WayNodeItems ==
    { "n1", "n-5", "n", "", "x1", "n1x1.5", "n1x1.5y2", "n1x", "n1y2" }

\* The elements of member sections.
MemberItems ==
    { "n1@", "w2@a", "r3@from", "n1", "x1@", "n@", "n1@a=b", "n-7@%20%", "" }

\* What stands at the cursor of opl_parse_space.
SpaceTexts ==
    { "", " ", "\t", "  ", " \t ", " v1", "\tv1", "  \t\tx", "v1", "v 1", ",", " ," }

\* What stands at the cursor of opl_parse_char and opl_parse_visible.
CharTexts == { "", "=", ",", "@", "n", "V", "D", "Vx", "D ", "v", "d", " V", "=b", ",c", "x" }

\* The calls: the scanner, the buffer, the cursor, and for opl_parse_int the
\* type T, for the string scanners the result string before the call.
ScanCall(fn, pad, text, T, pre) ==
    [fn |-> fn, bytes |-> Z(pad \o text), at |-> Len(pad), T |-> T, pre |-> pre]

NoType == [name |-> "none", min |-> << >>, max |-> << >>]

\* The calls of the sub-parsers, as the entity parsers make them: on a
\* section that opl_skip_section ended; opl_parse_tags and
\* opl_parse_relation_members only on a section that is not empty.
SectionCalls ==
    { ScanCall("opl_parse_tags", "T", t, NoType, << >>) :
        t \in { x \in Sections(TagItems, {"", " v1"}) :
                  opl_non_empty(Z(x), 0) } }
    \cup { ScanCall("opl_parse_way_nodes", "N", t, NoType, << >>) :
             t \in Sections(WayNodeItems, {"", " v1"}) }
    \cup { ScanCall("opl_parse_relation_members", "M", t, NoType, << >>) :
             t \in { x \in Sections(MemberItems, {"", " v1"}) :
                       opl_non_empty(Z(x), 0) } }

\* The calls of the scanners of one byte and of blanks; pre holds the byte
\* opl_parse_char is to find.
ByteCalls ==
    { ScanCall("opl_parse_space", pad, t, NoType, << >>) :
        pad \in {"", "v1"}, t \in SpaceTexts }
    \cup { ScanCall("opl_parse_char", pad, t, NoType, B(c)) :
             pad \in {"", "a"}, t \in CharTexts, c \in {"=", ",", "@", "n"} }
    \cup { ScanCall("opl_parse_visible", pad, t, NoType, << >>) :
             pad \in {"", "d"}, t \in CharTexts }

ScanCalls ==
    { ScanCall("opl_parse_int", pad, t, T, << >>) :
        pad \in {"", "v"}, t \in IntTexts, T \in {Int64Type, UInt32Type} }
    \cup { ScanCall("opl_parse_escaped", "%", t, NoType, pre) :
             t \in EscapedTexts, pre \in {<< >>, B("ab")} }
    \cup { ScanCall("opl_parse_string", pad, t, NoType, pre) :
             pad \in {"", "u"}, t \in StringTexts, pre \in {<< >>, B("k=")} }
    \cup { ScanCall("opl_parse_timestamp", pad, t, NoType, << >>) :
             pad \in {"", "t"}, t \in TimestampTexts }
    \cup SectionCalls
    \cup ByteCalls

\* The byte a one-byte text stands for, the other way round.
CharOf(b) == CHOOSE c \in DOMAIN Ord : Ord[c] = b

\* The call has not returned.
Pending == [ok |-> FALSE, msg |-> "", at |-> NULL]

ScanInit ==
    /\ \E c \in ScanCalls :
        /\ line = c.bytes
        /\ scan = [fn |-> c.fn, at |-> c.at, T |-> c.T, pre |-> c.pre, out |-> Pending]
    /\ read_types = {}
    /\ line_count = 0
    /\ wellformed = FALSE
    /\ pc = "call"
    /\ kind = "none"
    /\ frame = NewFrame(start_of_line)
    /\ letters = << >>
    /\ buffer = << >>
    /\ result = "none"
    /\ err = NoError

\* The call returns or throws r.
Return(r) ==
    /\ scan' = [scan EXCEPT !.out = r]
    /\ pc' = "returned"
    /\ UNCHANGED << line, read_types, line_count, wellformed, kind, frame, letters,
                    buffer, result, err >>

CallInt ==
    /\ pc = "call"
    /\ scan.fn = "opl_parse_int"
    /\ Return(opl_parse_int(line, scan.at, scan.T))

CallEscaped ==
    /\ pc = "call"
    /\ scan.fn = "opl_parse_escaped"
    /\ Return(opl_parse_escaped(line, scan.at, scan.pre))

CallString ==
    /\ pc = "call"
    /\ scan.fn = "opl_parse_string"
    /\ Return(opl_parse_string(line, scan.at, scan.pre))

CallTimestamp ==
    /\ pc = "call"
    /\ scan.fn = "opl_parse_timestamp"
    /\ Return(opl_parse_timestamp(line, scan.at))

\* opl_parse_tags(tags_begin, ...).
CallTags ==
    /\ pc = "call"
    /\ scan.fn = "opl_parse_tags"
    /\ Return(opl_parse_tags(line, scan.at))

\* opl_parse_way_nodes(nodes_begin, nodes_end, ...) with the nodes_end that
\* opl_skip_section returned.
CallWayNodes ==
    /\ pc = "call"
    /\ scan.fn = "opl_parse_way_nodes"
    /\ Return(opl_parse_way_nodes(line, scan.at, opl_skip_section(line, scan.at)))

\* opl_parse_relation_members(members_begin, members_end, ...).
CallMembers ==
    /\ pc = "call"
    /\ scan.fn = "opl_parse_relation_members"
    /\ Return(opl_parse_relation_members(line, scan.at, opl_skip_section(line, scan.at)))

CallSpace ==
    /\ pc = "call"
    /\ scan.fn = "opl_parse_space"
    /\ Return(opl_parse_space(line, scan.at))

CallChar ==
    /\ pc = "call"
    /\ scan.fn = "opl_parse_char"
    /\ Return(opl_parse_char(line, scan.at, CharOf(scan.pre[1])))

CallVisible ==
    /\ pc = "call"
    /\ scan.fn = "opl_parse_visible"
    /\ Return(opl_parse_visible(line, scan.at))

ScanNext ==
    \/ CallInt \/ CallEscaped \/ CallString \/ CallTimestamp
    \/ CallTags \/ CallWayNodes \/ CallMembers
    \/ CallSpace \/ CallChar \/ CallVisible

ScanSpec == ScanInit /\ [][ScanNext]_vars

\* ------------------------------------------------------------ properties

\* The names the entity parsers give their attribute letters in diagnostics.
ObjectAttributeNames ==
    [c \in {"v", "d", "c", "t", "i", "u", "T"} |->
        IF c = "v" THEN "version" ELSE IF c = "d" THEN "visible"
        ELSE IF c = "c" THEN "changeset_id" ELSE IF c = "t" THEN "timestamp"
        ELSE IF c = "i" THEN "uid" ELSE IF c = "u" THEN "user" ELSE "tags"]

AttributeNames(k) ==
    IF k = "node" THEN ObjectAttributeNames @@ [c \in {"x", "y"} |-> IF c = "x" THEN "lon" ELSE "lat"]
    ELSE IF k = "way" THEN ObjectAttributeNames @@ [c \in {"N"} |-> "nodes"]
    ELSE IF k = "relation" THEN ObjectAttributeNames @@ [c \in {"M"} |-> "members"]
    ELSE [c \in {"k", "s", "e", "d", "i", "u", "T", "x", "y", "X", "Y"} |->
            IF c = "k" THEN "num_changes" ELSE IF c = "s" THEN "created_at"
            ELSE IF c = "e" THEN "closed_at" ELSE IF c = "d" THEN "num_comments"
            ELSE IF c = "i" THEN "uid" ELSE IF c = "u" THEN "user"
            ELSE IF c = "T" THEN "tags" ELSE IF c = "x" THEN "min_x"
            ELSE IF c = "y" THEN "min_y" ELSE IF c = "X" THEN "max_x" ELSE "max_y"]

DuplicateMessage(k, c) ==
    "Duplicate attribute: " \o AttributeNames(k)[c] \o " (" \o c \o ")"

\* A letter entered the switch of the entity parser a second time.
DuplicateSeen ==
    \E i, j \in 1..Len(letters) : i < j /\ letters[i].letter = letters[j].letter

\* C1: opl_parse_line commits exactly once when it returns true and not at all
\* when it returns false or throws, also when the throw comes from a deferred
\* section; it returns true exactly when it committed.
C1_CommitOnceIffTrue ==
    /\ Len(buffer) <= 1
    /\ pc # "done" => buffer = << >> /\ result = "none"
    /\ pc = "done" =>
        /\ result \in {"true", "false", "error"}
        /\ result = "true" <=> Len(buffer) = 1
        /\ result \in {"false", "error"} => buffer = << >>

\* A line with a tag section was parsed to its end and committed.
C1_Witness ==
    /\ pc = "done"
    /\ result = "true"
    /\ Len(buffer) = 1
    /\ buffer[1].item.tags # << >>

\* C2: a well-formed line with the marker of kind K is parsed, committed and
\* answered true exactly when the K bit is in read_types; without the bit the
\* call returns false, commits nothing and throws nothing.
C2_MaskFiltering ==
    pc = "done" /\ wellformed /\ MarkerKind(line[1]) \in EntityBits =>
        /\ MarkerKind(line[1]) \in read_types =>
              result = "true" /\ Len(buffer) = 1 /\ err = NoError
        /\ MarkerKind(line[1]) \notin read_types =>
              result = "false" /\ buffer = << >> /\ err = NoError

\* C3: a line whose first byte is NUL or '#' returns false without error and
\* without commit, whatever follows; a line whose first byte is none of n, w, r,
\* c, '#', NUL throws "unknown type" with column 0; both for every mask.
C3_LinePrefix ==
    pc = "done" =>
        /\ line[1] \in {NUL, Ord["#"]} =>
              result = "false" /\ err = NoError /\ buffer = << >>
        /\ line[1] \notin {Ord["n"], Ord["w"], Ord["r"], Ord["c"], Ord["#"], NUL} =>
              /\ result = "error"
              /\ err.msg = "unknown type"
              /\ err.column = 0
              /\ buffer = << >>

\* A line with another first byte was rejected although every kind is read.
C3_Witness ==
    /\ pc = "done"
    /\ line[1] = Ord["x"]
    /\ read_types = EntityBits
    /\ result = "error"
    /\ err.msg = "unknown type"

\* C4: in every entity parser the second occurrence of an attribute letter,
\* whatever stands between the two, throws "Duplicate attribute: <name>
\* (<letter>)" for that letter at once, and nothing is committed.
C4_DuplicateAttribute ==
    \A i, j \in 1..Len(letters) :
        i < j /\ letters[i].letter = letters[j].letter =>
            /\ j = Len(letters)
            /\ pc \in {"catch", "done"}
            /\ result \in {"none", "error"}
            /\ err.msg = DuplicateMessage(kind, CharOf(letters[j].letter))
            /\ buffer = << >>

\* A changeset line repeated a letter behind another attribute and was
\* rejected.
C4_Witness ==
    /\ pc = "done"
    /\ kind = "changeset"
    /\ Len(letters) = 3
    /\ letters[1].letter = letters[3].letter
    /\ letters[2].letter # letters[1].letter
    /\ result = "error"

\* C5: an opl_error that leaves opl_parse_line carries the line_count argument
\* as its line and, as its column, the offset of the attached cursor from the
\* start of the line (0 when no cursor was attached); set_pos ran exactly once,
\* in the dispatcher.
C5_ColumnReporting ==
    /\ pc # "done" => err.set_pos_calls = 0
    /\ pc = "done" /\ result # "error" => err = NoError
    /\ pc = "done" /\ result = "error" =>
        /\ err.line = line_count
        /\ err.column = (IF err.data = NULL THEN 0 ELSE err.data - 0)
        /\ err.column \in 0..(Len(line) - 1)
        /\ err.set_pos_calls = 1

\* An error with a cursor behind the start of line 7 left the call.
C5_Witness ==
    /\ pc = "done"
    /\ result = "error"
    /\ line_count = 7
    /\ err.data # NULL
    /\ err.column > 0

\* C6: the column of a duplicate-attribute failure is the offset of the second
\* occurrence of the letter in the line.
C6_DuplicateColumn ==
    pc = "done" /\ result = "error" /\ DuplicateSeen =>
        err.column = letters[Len(letters)].at

\* The number of bytes from s on that P holds of; the NUL that ends the buffer
\* is not one of them.
RunLength(buf, s, P(_)) ==
    CHOOSE n \in 0..(Len(buf) - s - 1) :
        /\ \A i \in 0..(n - 1) : P(Byte(buf, s + i))
        /\ ~P(Byte(buf, s + n))

RECURSIVE StripZeros(_)
\* A tuple of decimal digits without its leading zeros.
StripZeros(d) == IF d # << >> /\ Head(d) = 0 THEN StripZeros(Tail(d)) ELSE d

\* The magnitude the n digit bytes at s spell.
MagnitudeAt(buf, s, n) == StripZeros([i \in 1..n |-> Byte(buf, s + i - 1) - Ord["0"]])

\* The number of sign negative and magnitude mag lies within the range of T.
InRange(negative, mag, T) ==
    IF negative /\ mag # << >> THEN ~MagLess(T.min, mag) ELSE ~MagLess(T.max, mag)

\* C7: opl_parse_int<T> returns the value of 1 to 15 digits behind an optional
\* '-' when it lies within T, with the cursor behind the last digit; 16 or more
\* digits and values outside T fail with "integer too long"; no digit at the
\* cursor fails with "expected integer"; the accumulator never overflows.
C7_ParseInt ==
    pc = "returned" /\ scan.fn = "opl_parse_int" =>
        LET negative == Byte(line, scan.at) = Ord["-"]
            first == IF negative THEN scan.at + 1 ELSE scan.at
            n == RunLength(line, first, IsDigit)
            mag == MagnitudeAt(line, first, n)
        IN /\ n \in 1..15 /\ InRange(negative, mag, scan.T) =>
                /\ scan.out.ok
                /\ scan.out.val = [neg |-> negative /\ mag # << >>, mag |-> mag]
                /\ scan.out.s = first + n
           /\ n >= 16 \/ (n >= 1 /\ ~InRange(negative, mag, scan.T)) =>
                ~scan.out.ok /\ scan.out.msg = "integer too long"
           /\ n = 0 => ~scan.out.ok /\ scan.out.msg = "expected integer"
           /\ ~scan.out.ovf

\* A negative number of 15 digits was returned as an object id.
C7_Witness ==
    /\ pc = "returned"
    /\ scan.fn = "opl_parse_int"
    /\ scan.T = Int64Type
    /\ scan.out.ok
    /\ scan.out.val.neg
    /\ Len(scan.out.val.mag) = 15

IsHex(b) == HexVal(b) >= 0

RECURSIVE HexNumber(_, _, _)
\* The number the n hex digit bytes at s spell, for n <= 8.
HexNumber(buf, s, n) ==
    IF n = 0 THEN Zero32
    ELSE Add4(Shl4(HexNumber(buf, s, n - 1)), HexVal(Byte(buf, s + n - 1)))

\* C8: behind the opening '%', 1 to 8 hex digits and a '%' succeed and append
\* the code point the digits name; no hex digit (%%) fails; 9 or more hex
\* digits fail.
C8_EscapeBounds ==
    pc = "returned" /\ scan.fn = "opl_parse_escaped" =>
        LET n == RunLength(line, scan.at, IsHex)
            closed == Byte(line, scan.at + n) = Ord["%"]
        IN /\ n \in 1..8 /\ closed =>
                /\ scan.out.ok
                /\ scan.out.s = scan.at + n + 1
                /\ scan.out.str =
                     scan.pre \o append_codepoint_as_utf8(HexNumber(line, scan.at, n))
           /\ n = 0 /\ closed => ~scan.out.ok
           /\ n >= 9 => ~scan.out.ok

StringTerminators == {NUL, Ord[" "], TAB, Ord[","], Ord["="]}

RECURSIVE Unescaped(_, _, _, _)
\* The string r after the bytes of buf from s up to e were added to it, every
\* '%' through the escape decoder.
Unescaped(buf, s, e, r) ==
    IF s >= e THEN [ok |-> TRUE, s |-> s, str |-> r]
    ELSE IF Byte(buf, s) = Ord["%"]
    THEN Then(opl_parse_escaped(buf, s + 1, r), LAMBDA x : Unescaped(buf, x.s, e, x.str))
    ELSE Unescaped(buf, s + 1, e, Append(r, Byte(buf, s)))

\* C9: opl_parse_string stops at the first NUL, space, tab, ',' or '=' outside
\* an escape and leaves the cursor on it; the bytes before it that are not '%'
\* are appended unchanged and in order, every '%' goes through the escape
\* decoder, and what the result held before the call is kept.
C9_ParseString ==
    pc = "returned" /\ scan.fn = "opl_parse_string" =>
        /\ scan.out.ok =>
            /\ scan.out.s >= scan.at
            /\ Byte(line, scan.out.s) \in StringTerminators
            /\ \A i \in scan.at..(scan.out.s - 1) : Byte(line, i) \notin StringTerminators
            /\ Len(scan.out.str) >= Len(scan.pre)
            /\ SubSeq(scan.out.str, 1, Len(scan.pre)) = scan.pre
            /\ (\A i \in scan.at..(scan.out.s - 1) : Byte(line, i) # Ord["%"]) =>
                  scan.out.str = scan.pre \o SubSeq(line, scan.at + 1, scan.out.s)
            /\ Unescaped(line, scan.at, scan.out.s, scan.pre) =
                  [ok |-> TRUE, s |-> scan.out.s, str |-> scan.out.str]
        /\ ~scan.out.ok =>
            /\ scan.out.msg \in {"eol", "not a hex char", "hex escape too long"}
            /\ \E i \in scan.at..(scan.out.at - 1) :
                  /\ Byte(line, i) = Ord["%"]
                  /\ \A j \in scan.at..i : Byte(line, j) \notin StringTerminators

\* A string with plain bytes and an escape was appended to a result that held
\* bytes already, up to a '=' that was left in place.
C9_Witness ==
    /\ pc = "returned"
    /\ scan.fn = "opl_parse_string"
    /\ scan.out.ok
    /\ scan.pre # << >>
    /\ Byte(line, scan.out.s) = Ord["="]
    /\ \E i \in scan.at..(scan.out.s - 1) : Byte(line, i) = Ord["%"]
    /\ \E i \in scan.at..(scan.out.s - 1) : Byte(line, i) = Ord["a"]

\* C10: opl_parse_timestamp returns the unset timestamp without moving the
\* cursor when it stands on NUL, space or tab; otherwise the instant of the bytes
\* the ISO-8601 parser accepts, the cursor moved by 20; otherwise it fails with
\* "can not parse timestamp" at the unmoved cursor.
C10_ParseTimestamp ==
    pc = "returned" /\ scan.fn = "opl_parse_timestamp" =>
        IF Byte(line, scan.at) \in {NUL, Ord[" "], TAB}
        THEN scan.out = [ok |-> TRUE, s |-> scan.at, val |-> UnsetTimestamp]
        ELSE IF Timestamp(line, scan.at).ok
        THEN scan.out = [ok |-> TRUE, s |-> scan.at + 20,
                         val |-> Timestamp(line, scan.at).val]
        ELSE /\ ~scan.out.ok
             /\ scan.out.msg = "can not parse timestamp"
             /\ scan.out.at = scan.at

\* A timestamp in the middle of a buffer was accepted.
C10_Witness ==
    /\ pc = "returned"
    /\ scan.fn = "opl_parse_timestamp"
    /\ scan.at > 0
    /\ scan.out.ok
    /\ scan.out.s = scan.at + 20
    /\ scan.out.val = << 2016, 3, 4, 12, 34, 56 >>
    /\ Byte(line, scan.out.s) = Ord[" "]

\* ------------------------------------------------- the sections' grammar

\* The first offset in [s, e) that holds the byte b, e when none does.
FirstAt(buf, s, e, b) ==
    IF \E i \in s..(e - 1) : Byte(buf, i) = b
    THEN CHOOSE i \in s..(e - 1) :
            Byte(buf, i) = b /\ \A j \in s..(i - 1) : Byte(buf, j) # b
    ELSE e

RECURSIVE Pieces(_, _, _)
\* The ranges << lo, hi >> the commas cut [s, e) into, in order; a section of n
\* commas has n + 1 of them, empty ones included.
Pieces(buf, s, e) ==
    IF FirstAt(buf, s, e, Ord[","]) = e THEN << << s, e >> >>
    ELSE << << s, FirstAt(buf, s, e, Ord[","]) >> >>
         \o Pieces(buf, FirstAt(buf, s, e, Ord[","]) + 1, e)

RECURSIVE IsString(_, _, _)
\* string := (plain-byte | '%' hex{1..8} '%')* over the range [lo, hi), which
\* holds no terminator.
IsString(buf, lo, hi) ==
    IF lo >= hi THEN TRUE
    ELSE IF Byte(buf, lo) = Ord["%"]
    THEN LET n == RunLength(buf, lo + 1, IsHex)
         IN /\ n \in 1..8
            /\ lo + 1 + n < hi
            /\ Byte(buf, lo + 1 + n) = Ord["%"]
            /\ IsString(buf, lo + n + 2, hi)
    ELSE IsString(buf, lo + 1, hi)

\* tag := string '=' string over the range p, with exactly one '='.
IsTag(buf, p) ==
    LET eq == FirstAt(buf, p[1], p[2], Ord["="])
    IN /\ eq < p[2]
       /\ FirstAt(buf, eq + 1, p[2], Ord["="]) = p[2]
       /\ IsString(buf, p[1], eq)
       /\ IsString(buf, eq + 1, p[2])

\* The (key, value) pair of a tag over the range p.
TagOf(buf, p) ==
    LET eq == FirstAt(buf, p[1], p[2], Ord["="])
    IN << Unescaped(buf, p[1], eq, << >>).str, Unescaped(buf, eq + 1, p[2], << >>).str >>

\* C11: opl_parse_tags accepts a non-empty section exactly when it is
\* tag (',' tag)* with tag = string '=' string, and then adds one (key, value)
\* pair per tag in the order of the input, each from empty buffers; a tag
\* without '=' fails with "expected '='", a second '=' in a tag with
\* "expected ','".
C11_TagList ==
    pc = "returned" /\ scan.fn = "opl_parse_tags" =>
        LET e == opl_skip_section(line, scan.at)
            ps == Pieces(line, scan.at, e)
            bad == { i \in 1..Len(ps) : ~IsTag(line, ps[i]) }
        IN /\ scan.out.ok <=> bad = {}
           /\ scan.out.ok =>
                /\ scan.out.s = e
                /\ scan.out.tags = [i \in 1..Len(ps) |-> TagOf(line, ps[i])]
           /\ bad # {} =>
                LET p == ps[CHOOSE i \in bad : \A j \in bad : i <= j]
                    eq == FirstAt(line, p[1], p[2], Ord["="])
                IN /\ IsString(line, p[1], eq) /\ eq = p[2] =>
                        /\ ~scan.out.ok
                        /\ scan.out.msg = "expected '='"
                        /\ scan.out.at = eq
                   /\ (/\ eq < p[2]
                       /\ IsString(line, p[1], eq)
                       /\ FirstAt(line, eq + 1, p[2], Ord["="]) < p[2]
                       /\ IsString(line, eq + 1, FirstAt(line, eq + 1, p[2], Ord["="]))) =>
                        /\ ~scan.out.ok
                        /\ scan.out.msg = "expected ','"
                        /\ scan.out.at = FirstAt(line, eq + 1, p[2], Ord["="])

\* waynode := 'n' id ('x' lon ('y' lat)?)? over the range p, the id an int of
\* the grammar within the object ids, lon and lat numbers that
\* set_lon_partial and set_lat_partial read.
IsWayNode(buf, p) ==
    /\ p[1] < p[2]
    /\ Byte(buf, p[1]) = Ord["n"]
    /\ opl_parse_id(buf, p[1] + 1).ok
    /\ LET a == opl_parse_id(buf, p[1] + 1).s
       IN \/ a = p[2]
          \/ /\ Byte(buf, a) = Ord["x"]
             /\ partial_coordinate(buf, a + 1).ok
             /\ LET b == partial_coordinate(buf, a + 1).s
                IN \/ b = p[2]
                   \/ /\ Byte(buf, b) = Ord["y"]
                      /\ partial_coordinate(buf, b + 1).ok
                      /\ partial_coordinate(buf, b + 1).s = p[2]

\* C12: opl_parse_way_nodes accepts a section exactly when it is empty or
\* waynode (',' waynode)*, and then emits one node reference per waynode in
\* the order of the input; a section that ends in ',' is rejected.
C12_WayNodeList ==
    pc = "returned" /\ scan.fn = "opl_parse_way_nodes" =>
        LET e == opl_skip_section(line, scan.at)
            ps == Pieces(line, scan.at, e)
        IN /\ scan.out.ok <=> (scan.at = e \/ \A i \in 1..Len(ps) : IsWayNode(line, ps[i]))
           /\ scan.out.ok /\ scan.at < e =>
                /\ Len(scan.out.nodes) = Len(ps)
                /\ \A i \in 1..Len(ps) :
                     scan.out.nodes[i].ref = opl_parse_id(line, ps[i][1] + 1).val
           /\ scan.at < e /\ Byte(line, e - 1) = Ord[","] => ~scan.out.ok

\* member := ('n'|'w'|'r') id '@' role? over the range p, the role a string.
IsMember(buf, p) ==
    /\ p[1] < p[2]
    /\ Byte(buf, p[1]) \in {Ord["n"], Ord["w"], Ord["r"]}
    /\ opl_parse_id(buf, p[1] + 1).ok
    /\ LET a == opl_parse_id(buf, p[1] + 1).s
       IN /\ a < p[2]
          /\ Byte(buf, a) = Ord["@"]
          /\ FirstAt(buf, a + 1, p[2], Ord["="]) = p[2]
          /\ IsString(buf, a + 1, p[2])

\* The member (kind, ref, role) over the range p.
MemberOf(buf, p) ==
    [type |-> IF Byte(buf, p[1]) = Ord["n"] THEN "node"
              ELSE IF Byte(buf, p[1]) = Ord["w"] THEN "way" ELSE "relation",
     ref |-> opl_parse_id(buf, p[1] + 1).val,
     role |-> Unescaped(buf, opl_parse_id(buf, p[1] + 1).s + 1, p[2], << >>).str]

\* C13: opl_parse_relation_members accepts a non-empty section exactly when it
\* is member (',' member)*, and then emits one member (kind, ref, role) per
\* element in the order of the input, with the empty role for a member that
\* ends at its '@'; another kind byte fails with "unknown object type", a
\* missing '@' behind the id with "expected '@'".
C13_MemberList ==
    pc = "returned" /\ scan.fn = "opl_parse_relation_members" =>
        LET e == opl_skip_section(line, scan.at)
            ps == Pieces(line, scan.at, e)
            bad == { i \in 1..Len(ps) : ~IsMember(line, ps[i]) }
        IN /\ scan.out.ok <=> bad = {}
           /\ scan.out.ok =>
                scan.out.members = [i \in 1..Len(ps) |-> MemberOf(line, ps[i])]
           /\ bad # {} =>
                LET p == ps[CHOOSE i \in bad : \A j \in bad : i <= j]
                IN /\ p[1] < p[2] /\ Byte(line, p[1]) \notin {Ord["n"], Ord["w"], Ord["r"]} =>
                        /\ ~scan.out.ok
                        /\ scan.out.msg = "unknown object type"
                        /\ scan.out.at = p[1]
                   /\ (/\ p[1] < p[2]
                       /\ Byte(line, p[1]) \in {Ord["n"], Ord["w"], Ord["r"]}
                       /\ opl_parse_id(line, p[1] + 1).ok
                       /\ Byte(line, opl_parse_id(line, p[1] + 1).s) # Ord["@"]) =>
                        /\ ~scan.out.ok
                        /\ scan.out.msg = "expected '@'"
                        /\ scan.out.at = opl_parse_id(line, p[1] + 1).s

\* The attribute letters of each entity.
AttributeLetters(k) ==
    IF k = "node" THEN {"v", "d", "c", "t", "i", "u", "T", "x", "y"}
    ELSE IF k = "way" THEN {"v", "d", "c", "t", "i", "u", "T", "N"}
    ELSE IF k = "relation" THEN {"v", "d", "c", "t", "i", "u", "T", "M"}
    ELSE {"k", "s", "e", "d", "i", "u", "x", "y", "X", "Y", "T"}

\* C14: a letter outside the entity's set throws "unknown attribute" with the
\* cursor back on the letter, and the column that opl_parse_line reports is the
\* offset of the letter in the line (3 for n1 z5); no letter of the set does.
C14_UnknownAttribute ==
    /\ \A i \in 1..Len(letters) :
         CharOf(letters[i].letter) \notin AttributeLetters(kind) =>
            /\ i = Len(letters)
            /\ pc \in {"catch", "done"}
            /\ err.msg = "unknown attribute"
            /\ err.data = letters[i].at
            /\ Byte(line, err.data) = letters[i].letter
            /\ pc = "done" =>
                 result = "error" /\ err.column = letters[i].at /\ buffer = << >>
    /\ err.msg = "unknown attribute" =>
         /\ letters # << >>
         /\ CharOf(letters[Len(letters)].letter) \notin AttributeLetters(kind)
    /\ pc = "done" /\ line = Z("n1 z5") /\ "node" \in read_types =>
         err.msg = "unknown attribute" /\ err.column = 3

\* A changeset line with the letter v, which only the other entities have,
\* behind another attribute was rejected at the offset of the v.
C14_Witness ==
    /\ pc = "done"
    /\ kind = "changeset"
    /\ Len(letters) = 2
    /\ letters[2].letter = Ord["v"]
    /\ result = "error"
    /\ err.msg = "unknown attribute"
    /\ err.column = letters[2].at
    /\ err.column > 3

\* C15: with the node bit set, the lines n1 Tname=Caf%C3%A9 and
\* n1 Tname=Caf%E9% are accepted: the call returns true without an error and
\* commits one node with the id 1 and exactly one tag, whose key is name.
C15_EscapedTagLines ==
    /\ pc = "done"
    /\ line \in {Z("n1 Tname=Caf%C3%A9"), Z("n1 Tname=Caf%E9%")}
    /\ "node" \in read_types
    => /\ result = "true"
       /\ err = NoError
       /\ Len(buffer) = 1
       /\ buffer[1].type = "node"
       /\ buffer[1].item.id = [neg |-> FALSE, mag |-> << 1 >>]
       /\ Len(buffer[1].item.tags) = 1
       /\ buffer[1].item.tags[1][1] = B("name")

\* The line with the escape %C3% was committed; the value of its tag is Caf,
\* the two bytes of U+00C3 and the plain bytes A9.
C15_Witness ==
    /\ pc = "done"
    /\ line = Z("n1 Tname=Caf%C3%A9")
    /\ result = "true"
    /\ Len(buffer) = 1
    /\ buffer[1].item.tags = << << B("name"), B("Caf") \o << 195, 131 >> \o B("A9") >> >>

\* The offset of the NUL that ends the line.
EndOfLine(buf) == FirstAt(buf, 0, Len(buf) - 1, NUL)

IsBlank(b) == b = Ord[" "] \/ b = TAB

\* The offsets at which the blanks of the line let a field begin.
FieldStarts(buf) ==
    { i \in 1..(EndOfLine(buf) - 1) : ~IsBlank(Byte(buf, i)) /\ IsBlank(Byte(buf, i - 1)) }

\* What the payload of the letter c is read with in an entity of kind k: the
\* scalar of the letter, or the section that is skipped.
PayloadScan(k, c, buf, s) ==
    IF c \in {"v", "c", "i", "k"} \/ (c = "d" /\ k = "changeset")
    THEN opl_parse_int(buf, s, UInt32Type)
    ELSE IF c = "d" THEN opl_parse_visible(buf, s)
    ELSE IF c \in {"t", "s", "e"} THEN opl_parse_timestamp(buf, s)
    ELSE IF c = "u" THEN opl_parse_string(buf, s, << >>)
    ELSE IF c \in {"x", "y", "X", "Y"} /\ opl_non_empty(buf, s) THEN partial_coordinate(buf, s)
    ELSE IF c \in {"x", "y", "X", "Y"} THEN [ok |-> TRUE, s |-> s]
    ELSE [ok |-> TRUE, s |-> opl_skip_section(buf, s)]

\* A scan r went wrong or stopped in front of a byte that ends no field.
Malformed(buf, r) == ~r.ok \/ opl_non_empty(buf, r.s)

\* The line has an error of the flat scan: a malformed id, a letter outside
\* the entity's set, a letter that occurs twice, or a malformed scalar.
FlatError(k, buf) ==
    \/ Malformed(buf, IF k = "changeset" THEN opl_parse_changeset_id(buf, 1)
                      ELSE opl_parse_id(buf, 1))
    \/ \E i \in FieldStarts(buf) :
         \/ CharOf(Byte(buf, i)) \notin AttributeLetters(k)
         \/ Malformed(buf, PayloadScan(k, CharOf(Byte(buf, i)), buf, i + 1))
         \/ \E j \in FieldStarts(buf) : i # j /\ Byte(buf, i) = Byte(buf, j)

\* The fields of the line that hold a tag section opl_parse_tags rejects.
BadTagFields(buf) ==
    { i \in FieldStarts(buf) :
        /\ Byte(buf, i) = Ord["T"]
        /\ opl_non_empty(buf, i + 1)
        /\ ~opl_parse_tags(buf, i + 1).ok }

\* The fields that hold a way-node section (in a way) or a member section (in
\* a relation) that its sub-parser rejects.
BadListFields(k, buf) ==
    { i \in FieldStarts(buf) :
        \/ /\ k = "way"
           /\ Byte(buf, i) = Ord["N"]
           /\ ~opl_parse_way_nodes(buf, i + 1, opl_skip_section(buf, i + 1)).ok
        \/ /\ k = "relation"
           /\ Byte(buf, i) = Ord["M"]
           /\ opl_non_empty(buf, i + 1)
           /\ ~opl_parse_relation_members(buf, i + 1, opl_skip_section(buf, i + 1)).ok }

\* The error e of the call lies in the section of one of the fields F.
ErrorWithin(e, buf, F) ==
    /\ e.data # NULL
    /\ \E i \in F : e.data \in (i + 1)..opl_skip_section(buf, i + 1)

\* C16: the T, N and M sections are skipped by the flat scan and parsed only
\* when it has reached the end of the line; so on a line with a malformed
\* section and an error of the flat scan, before or behind the section, the
\* error of the flat scan is raised, and on a line whose tag section and N or
\* M section are both malformed the error of the tags is raised.
C16_DeferredOrder ==
    /\ pc \in {"id", "loop", "finish"} =>
         /\ frame.builder.tags = << >>
         /\ frame.builder.nodes = << >>
         /\ frame.builder.members = << >>
    /\ pc = "finish" => Byte(line, frame.data) = NUL /\ frame.data = EndOfLine(line)
    /\ pc = "done" /\ kind # "none" =>
         LET T == BadTagFields(line)
             L == BadListFields(kind, line)
         IN /\ FlatError(kind, line) /\ T \cup L # {} =>
                 /\ result = "error"
                 /\ ~ErrorWithin(err, line, T \cup L)
            /\ ~FlatError(kind, line) /\ T # {} =>
                 /\ result = "error"
                 /\ \A i \in T :
                      /\ err.msg = opl_parse_tags(line, i + 1).msg
                      /\ err.data = opl_parse_tags(line, i + 1).at
            /\ ~FlatError(kind, line) /\ T = {} /\ L # {} =>
                 /\ result = "error"
                 /\ ErrorWithin(err, line, L)
            /\ ~FlatError(kind, line) /\ T \cup L = {} => result = "true"

\* A way line with a malformed tag section in front of an unknown letter was
\* rejected for the letter.
C16_Witness ==
    /\ pc = "done"
    /\ kind = "way"
    /\ result = "error"
    /\ err.msg = "unknown attribute"
    /\ \E i \in BadTagFields(line) : i < err.data

\* The coordinate letters of the node and changeset parsers.
CoordinateLetters(k) ==
    IF k = "node" THEN {"x", "y"}
    ELSE IF k = "changeset" THEN {"x", "y", "X", "Y"}
    ELSE {}

\* The has_* flag of the letter c in the entity parser of kind k.
FlagOf(k, c) ==
    IF k = "node" THEN (IF c = "x" THEN "has_lon" ELSE "has_lat")
    ELSE IF c = "x" THEN "has_min_x" ELSE IF c = "y" THEN "has_min_y"
    ELSE IF c = "X" THEN "has_max_x" ELSE "has_max_y"

\* The pass of the loop that is taken read a coordinate letter with nothing
\* but NUL, space or tab behind it.
EmptyCoordinateRead ==
    /\ pc = "loop"
    /\ Len(letters') = Len(letters) + 1
    /\ CharOf(letters'[Len(letters')].letter) \in CoordinateLetters(kind)
    /\ ~opl_non_empty(line, letters'[Len(letters')].at + 1)

\* The fields of the letter c that hold a value.
ValueFields(buf, c) ==
    { i \in FieldStarts(buf) : Byte(buf, i) = Ord[c] /\ opl_non_empty(buf, i + 1) }

\* C17: a coordinate letter of a node (x, y) or changeset (x, y, X, Y) with
\* NUL, space or tab right behind it is accepted, sets the flag of the letter
\* and leaves the coordinate as it was, and a second such letter is a
\* duplicate; n1 x y is committed without a call of set_location, n1 x x
\* fails as a duplicate; a node's location is set only with two coordinates
\* that make it valid.
C17_CoordinatePresence ==
    /\ [][EmptyCoordinateRead =>
            LET c == CharOf(letters'[Len(letters')].letter)
            IN IF FlagOf(kind, c) \in frame.has
               THEN /\ pc' = "catch"
                    /\ err'.msg = DuplicateMessage(kind, c)
               ELSE /\ pc' = "loop"
                    /\ frame'.has = frame.has \cup {FlagOf(kind, c)}
                    /\ frame'.data = letters'[Len(letters')].at + 1
                    /\ frame'.location = frame.location
                    /\ frame'.box = frame.box
                    /\ frame'.builder = frame.builder]_vars
    /\ [](pc = "done" /\ "node" \in read_types =>
            /\ line = Z("n1 x y") =>
                 /\ result = "true"
                 /\ ~buffer[1].item.location_set
                 /\ buffer[1].item.location = UndefinedLocation
            /\ line = Z("n1 x x") =>
                 /\ result = "error"
                 /\ err.msg = "Duplicate attribute: lon (x)"
                 /\ buffer = << >>)
    /\ [](pc = "done" /\ kind = "node" /\ result = "true" =>
            IF buffer[1].item.location_set
            THEN /\ LocationValid(buffer[1].item.location)
                 /\ \E i \in ValueFields(line, "x") :
                      buffer[1].item.location.x = partial_coordinate(line, i + 1).val
                 /\ \E i \in ValueFields(line, "y") :
                      buffer[1].item.location.y = partial_coordinate(line, i + 1).val
            ELSE /\ buffer[1].item.location = UndefinedLocation
                 /\ \/ ValueFields(line, "x") = {}
                    \/ ValueFields(line, "y") = {}
                    \/ ~LocationValid(frame.location))

\* The line n1 x y was committed with both flags set and no location.
C17_Witness ==
    /\ pc = "done"
    /\ line = Z("n1 x y")
    /\ result = "true"
    /\ {"has_lon", "has_lat"} \subseteq frame.has
    /\ ~buffer[1].item.location_set

\* The offsets from s on, among the 20 of a timestamp, whose byte does not fit
\* the form yyyy-mm-ddThh:mm:ssZ.
FormDeviations(buf, s) ==
    { i \in 0..19 :
        /\ s + i < Len(buf)
        /\ \/ i \in IsoDigitAt /\ ~IsDigit(Byte(buf, s + i))
           \/ i \in DOMAIN IsoFixed /\ Byte(buf, s + i) # IsoFixed[i] }

\* The least number of a non-empty set of numbers.
Least(S) == CHOOSE i \in S : \A j \in S : i <= j

\* The cursors that point at the offending byte when the scanner of the call
\* fails: the byte that is no blank, not the expected byte, no V or D; the
\* byte that is no digit where the first digit has to stand, the 16th digit,
\* a byte of a number beyond the range of T; the first byte that does not fit
\* the form of a timestamp (any byte of a timestamp of the right form with a
\* field out of its range); the byte that is no hex digit or the ninth hex
\* digit of an escape.
OffendingBytes ==
    LET first == IF Byte(line, scan.at) = Ord["-"] THEN scan.at + 1 ELSE scan.at
        digits == RunLength(line, first, IsDigit)
    IN IF scan.fn \in {"opl_parse_space", "opl_parse_char", "opl_parse_visible"}
       THEN {scan.at}
       ELSE IF scan.fn = "opl_parse_int"
       THEN IF digits = 0 THEN {first}
            ELSE IF digits >= 16 THEN {first + 15}
            ELSE scan.at..(first + digits - 1)
       ELSE IF scan.fn = "opl_parse_timestamp"
       THEN IF FormDeviations(line, scan.at) # {}
            THEN {scan.at + Least(FormDeviations(line, scan.at))}
            ELSE scan.at..(scan.at + 19)
       ELSE IF scan.fn = "opl_parse_escaped"
       THEN {scan.at + (IF RunLength(line, scan.at, IsHex) > 8 THEN 8
                        ELSE RunLength(line, scan.at, IsHex))}
       ELSE { i + 1 + (IF RunLength(line, i + 1, IsHex) > 8 THEN 8
                       ELSE RunLength(line, i + 1, IsHex)) :
                i \in { j \in scan.at..(Len(line) - 2) : Byte(line, j) = Ord["%"] } }

\* The cursor right behind the last byte the scanner of the call consumes
\* when it succeeds.
PastConsumed ==
    LET first == IF Byte(line, scan.at) = Ord["-"] THEN scan.at + 1 ELSE scan.at
    IN IF scan.fn = "opl_parse_space" THEN scan.at + RunLength(line, scan.at, IsBlank)
       ELSE IF scan.fn \in {"opl_parse_char", "opl_parse_visible"} THEN scan.at + 1
       ELSE IF scan.fn = "opl_parse_int" THEN first + RunLength(line, first, IsDigit)
       ELSE IF scan.fn = "opl_parse_timestamp"
       THEN (IF opl_non_empty(line, scan.at) THEN scan.at + 20 ELSE scan.at)
       ELSE IF scan.fn = "opl_parse_escaped"
       THEN scan.at + RunLength(line, scan.at, IsHex) + 1
       ELSE scan.at + RunLength(line, scan.at, LAMBDA b : b \notin StringTerminators)

ScalarScanners ==
    { "opl_parse_space", "opl_parse_char", "opl_parse_int", "opl_parse_visible",
      "opl_parse_timestamp", "opl_parse_escaped", "opl_parse_string" }

\* C18: a scalar scanner that succeeds leaves the cursor right behind the last
\* byte it consumed; one that fails attaches to its error the cursor of the
\* offending byte.
C18_CursorDiscipline ==
    pc = "returned" /\ scan.fn \in ScalarScanners =>
        IF scan.out.ok
        THEN scan.out.s = PastConsumed
        ELSE scan.out.at \in OffendingBytes

\* The cursors of the line: from its start to its NUL.
InLine(d) == d \in start_of_line..EndOfLine(line)

\* The cursors of a sequence grow from each to the next.
Advancing(tops) == \A i \in 1..(Len(tops) - 1) : tops[i] < tops[i + 1]

\* The cursor c of a sub-parser called on the section [b, e) began at b,
\* advanced with every iteration and stopped in the section or at its end.
StaysIn(c, b, e) ==
    c.s # NULL =>
        /\ c.tops # << >> => c.tops[1] = b
        /\ Advancing(c.tops)
        /\ \A i \in 1..Len(c.tops) : c.tops[i] \in b..(e - 1)
        /\ c.s \in b..e
        /\ c.tops # << >> => c.tops[Len(c.tops)] < c.s

\* A bound of the number of steps the call has left: the steps behind the loop
\* and, in front of and in the loop, the bytes the cursor has not passed.
StepsLeft ==
    IF pc = "done" THEN 0
    ELSE IF pc \in {"catch", "commit"} THEN 1
    ELSE IF pc = "finish" THEN 3
    ELSE IF pc = "loop" THEN 4 + (EndOfLine(line) - frame.data)
    ELSE IF pc = "id" THEN 5 + EndOfLine(line)
    ELSE 6 + EndOfLine(line)

\* C19: during opl_parse_line the flat-scan cursor, the remembered sections,
\* the cursors of the tag, way-node and member sub-parsers and the cursor of an
\* error stay between the start of the line and its first NUL; a sub-parser
\* stops in its section or at its end; every iteration of the flat loop and of
\* the sub-parsers' loops advances its cursor; every step brings the call
\* closer to its result or error.
C19_CursorBounds ==
    /\ [](/\ InLine(frame.data)
          /\ \A d \in {frame.tags_begin, frame.sect_begin, frame.sect_end, err.data} :
               d # NULL => InLine(d)
          /\ frame.sect_begin <= frame.sect_end
          /\ \A i \in 1..Len(letters) :
               /\ InLine(letters[i].at)
               /\ letters[i].letter # NUL
               /\ i > 1 => letters[i - 1].at < letters[i].at
          /\ frame.tags_begin # NULL =>
               StaysIn(frame.tags_s, frame.tags_begin,
                       opl_skip_section(line, frame.tags_begin))
          /\ StaysIn(frame.sect_s, frame.sect_begin, frame.sect_end)
          /\ pc \in {"catch", "done"} /\ err.data # NULL
               /\ Byte(line, frame.data) = NUL /\ letters # << >> =>
               \/ /\ frame.tags_begin # NULL
                  /\ err.data \in frame.tags_begin..opl_skip_section(line, frame.tags_begin)
               \/ /\ frame.sect_begin # NULL
                  /\ err.data \in frame.sect_begin..frame.sect_end
          /\ StepsLeft >= 0)
    /\ [][/\ pc = "loop" /\ pc' \in {"loop", "finish"} /\ Byte(line, frame.data) # NUL =>
               frame'.data > frame.data
          /\ StepsLeft' < StepsLeft
          /\ line' = line]_vars

\* A relation line with two tags and a member section was parsed to its end;
\* the tag parser went through its loop twice and both sub-parsers stopped at
\* the end of their sections.
C19_Witness ==
    /\ pc = "done"
    /\ kind = "relation"
    /\ result = "true"
    /\ Len(frame.tags_s.tops) = 2
    /\ frame.tags_s.s = opl_skip_section(line, frame.tags_begin)
    /\ Len(frame.sect_s.tops) >= 1
    /\ frame.sect_s.s = frame.sect_end

\* The letter the switch was entered with last also entered it before.
SecondOccurrence ==
    /\ letters # << >>
    /\ \E i \in 1..(Len(letters) - 1) : letters[i].letter = letters[Len(letters)].letter

\* What reads the payload behind the letter the switch was entered with last.
LastPayload ==
    PayloadScan(kind, CharOf(letters[Len(letters)].letter), line,
                letters[Len(letters)].at + 1)

DuplicateMessages ==
    { DuplicateMessage(k, c) : k \in {kind} \cap EntityBits, c \in AttributeLetters(kind) }

\* C20: the has_* test comes before the value: a letter that occurs a second
\* time gives the duplicate error of the letter whatever stands behind it, a
\* malformed or missing value too (n1 v1 vX), never the error of the scalar;
\* a letter that occurs for the first time with a malformed value gives the
\* error of the scalar and never a duplicate error.
C20_DuplicateBeforeValue ==
    /\ pc \in {"catch", "done"} /\ SecondOccurrence =>
         /\ err.msg = DuplicateMessage(kind, CharOf(letters[Len(letters)].letter))
         /\ err.data = NULL
         /\ frame.data < letters[Len(letters)].at
    /\ /\ pc \in {"catch", "done"}
       /\ letters # << >>
       /\ ~SecondOccurrence
       /\ CharOf(letters[Len(letters)].letter) \in AttributeLetters(kind)
       /\ ~LastPayload.ok
       => /\ err.msg = LastPayload.msg
          /\ err.data = LastPayload.at
          /\ err.msg \notin DuplicateMessages
    /\ err.msg \in DuplicateMessages => SecondOccurrence
    /\ pc = "done" /\ line = Z("n1 v1 vX") /\ "node" \in read_types =>
         result = "error" /\ err.msg = "Duplicate attribute: version (v)"

\* The line n1 v1 vX, whose second v has no number behind it, was rejected as
\* a duplicate.
C20_Witness ==
    /\ pc = "done"
    /\ line = Z("n1 v1 vX")
    /\ result = "error"
    /\ SecondOccurrence
    /\ ~LastPayload.ok
    /\ err.msg = "Duplicate attribute: version (v)"

====
